---------------------------- MODULE Spec2Model ----------------------------
(***************************************************************************)
(* A model of the spatial comfort pipeline of LadybugTools_Toolkit         *)
(* (external_comfort/spatial.py): the shaded/unshaded MRT interpolation,   *)
(* the moisture plume angular mask and the disk-backed memoisation of the  *)
(* derived matrices of SpatialComfortResult.                               *)
(*                                                                         *)
(* The result object modelled is that of a simulation directory without a   *)
(* moisture_sources.json: spatial_comfort.moisture_sources is empty.        *)
(*                                                                         *)
(* Numbers are exact rationals <<n, d>> with d > 0; <<0, 0>> is NaN.       *)
(* An optional value is a sequence: <<>> is None / absent, <<v>> is v.     *)
(***************************************************************************)
EXTENDS Integers, Sequences, FiniteSets, TLC

\* ------------------------------------------------------------------ bounds
NumHours == 3
NumPoints == 3
MaxIrradiance == 2
MaxWindSpeed == 1

Hours == 1..NumHours
Points == 1..NumPoints

\* ------------------------------------------------------------- rationals
\* TLC keeps [x \in S |-> e] unevaluated and re-evaluates e at every application;
\* comparing the function with itself makes TLC tabulate it once.
Force(f) == IF f = f THEN f ELSE f

Abs(i) == IF i < 0 THEN -i ELSE i

RECURSIVE GCD(_, _)
GCD(a, b) == IF b = 0 THEN a ELSE GCD(b, a % b)

NaN == <<0, 0>>
IsNaN(x) == x[2] = 0

Norm(x) ==
    IF x[2] = 0 THEN NaN
    ELSE LET g == GCD(Abs(x[1]), Abs(x[2]))
             s == IF x[2] < 0 THEN -1 ELSE 1
         IN  <<s * (x[1] \div g), s * (x[2] \div g)>>

R(i) == <<i, 1>>
RAdd(a, b) == IF IsNaN(a) \/ IsNaN(b) THEN NaN
              ELSE Norm(<<a[1] * b[2] + b[1] * a[2], a[2] * b[2]>>)
RSub(a, b) == IF IsNaN(a) \/ IsNaN(b) THEN NaN
              ELSE Norm(<<a[1] * b[2] - b[1] * a[2], a[2] * b[2]>>)
RMul(a, b) == IF IsNaN(a) \/ IsNaN(b) THEN NaN
              ELSE Norm(<<a[1] * b[1], a[2] * b[2]>>)
\* numpy division under errstate(divide="ignore", invalid="ignore"): 0/0 is NaN
\* (a non-zero numerator over zero never arises where this is used)
RDiv(a, b) == IF IsNaN(a) \/ IsNaN(b) \/ b[1] = 0 THEN NaN
              ELSE Norm(<<a[1] * b[2], a[2] * b[1]>>)
RLe(a, b) == a[1] * b[2] <= b[1] * a[2]
RLt(a, b) == a[1] * b[2] < b[1] * a[2]
RMin(a, b) == IF RLe(a, b) THEN a ELSE b
RMax(a, b) == IF RLe(a, b) THEN b ELSE a

RECURSIVE Pow2(_)
Pow2(k) == IF k = 0 THEN 1 ELSE 2 * Pow2(k - 1)

\* numpy astype(np.float16): round to nearest, ties to even, on the binary16
\* grid (10 fraction bits, exponents -14..15, subnormals below 2^-14).
RECURSIVE F16ExpUp(_, _), F16ExpDown(_, _)
\* the binary exponent e (2^e <= a < 2^(e+1)) of the positive rational a,
\* clamped to the binary16 range -14..15
F16ExpUp(a, e) ==
    IF e = 15 \/ a[1] < Pow2(e + 1) * a[2] THEN e ELSE F16ExpUp(a, e + 1)
F16ExpDown(a, e) ==
    IF e = -14 \/ a[2] <= Pow2(-e) * a[1] THEN e ELSE F16ExpDown(a, e - 1)
F16Exp(a) == IF a[2] <= a[1] THEN F16ExpUp(a, 0) ELSE F16ExpDown(a, -1)

RoundHalfEven(a) ==
    \* nearest integer to the non-negative rational a, ties to even
    LET q == a[1] \div a[2]
        r == a[1] % a[2]
    IN  IF 2 * r < a[2] THEN q
        ELSE IF 2 * r > a[2] THEN q + 1
        ELSE IF q % 2 = 0 THEN q ELSE q + 1

Float16(x) ==
    IF IsNaN(x) THEN NaN
    ELSE IF x[1] = 0 THEN R(0)
    ELSE LET s == IF x[1] < 0 THEN -1 ELSE 1
             a == <<Abs(x[1]), x[2]>>
             e == F16Exp(a)
             \* quantum 2^(e-10) as a rational
             quant == IF e >= 10 THEN <<Pow2(e - 10), 1>> ELSE <<1, Pow2(10 - e)>>
             k == RoundHalfEven(RDiv(a, quant))
         IN  Norm(<<s * k * quant[1], quant[2]>>)

\* ------------------------------------------------------------ program constants
\* sky-view percentages bracketing the night-time interpolation, x_original = [0, 100]
SkyViewMin == 0
SkyViewMax == 100
\* mutant: the span 1.25 of the typology smoother
EwmSpanOfTypology == <<5, 4>>
\* .ewm(span=1.5): the span as the rational 3/2
EwmSpan == <<3, 2>>
\* angle_width = 12: the width of the moisture plume in degrees
AngleWidth == 12
\* the degrees of the full circle in the angle mask
FullCircle == 360

\* -------------------------------------------------------------------- state
VARIABLES
    ws,            \* the wind speed of the WindState being processed
    wd,            \* its wind direction, degrees 0..360
    angle_mask,    \* <<>> before angle_mask_local is built, else <<mask>>:
                   \* per bearing of a grid point from the source, TRUE = kept
    epw,           \* the weather file: [dbt, rh, ws], each a series over the hours
    disk,          \* the simulation directory: per cache file <<>> (absent)
                   \* or <<contents>>
    memo,          \* the cached_property store of the SpatialComfortResult:
                   \* per property <<>> (not yet evaluated) or <<value>>
    onwrite,       \* per cache file, <<>> or <<the value the property returned
                   \* when it computed the matrix and wrote the file>>
    ret,           \* <<>> or <<the record of the last property access>>
    shaded,        \* shaded_typology_result.mean_radiant_temperature, per hour
    unshaded,      \* unshaded_typology_result.mean_radiant_temperature, per hour
    sun_up,        \* epw.global_horizontal_radiation > 0, per hour
    irr,           \* annual_irradiance/results/total/*.ill, per hour and point
    sky,           \* sky_view/results/*.res, per point (0..100)
    interp,        \* <<>> before _interpolate_between_unshaded_shaded has run,
                   \* else <<[daytime, nighttime, concat, result]>>: its locals
    sources,       \* spatial_comfort.moisture_sources: per source its magnitude,
                   \* its points and its <pathsafe_id>.npy file (<<>> or <<matrix>>)
    grid,          \* points_xy: the positions of the grid points
    winds,         \* wind_speed_direction_unique: the WindStates <<ws, wd>>
    field,         \* <<>> before moisture_source_matrix_unique is evaluated, else
                   \* <<the record of its evaluation>>
    site,          \* the simulation directory handed to SpatialComfort(...)
    built,         \* <<>> before the constructor has run, else <<its outcome>>
    air,           \* the arguments of an evaporative cooling call
    cooled,        \* <<>> before the call, else <<its results>>
    typologies,    \* the list handed to calculate_typology_results
    futures,       \* results: per submitted typology the state of its future
    pc,            \* where calculate_typology_results stands
    results,       \* typology_results, the list being collected
    the_series,    \* the series handed to decay_rate_smoother
    smoothed,      \* <<>> before the call, else <<[ewm_mask, new_series]>>
    arrays,        \* the shapes of ta, tr, vel, rh handed to utci_parallel
    utci,          \* <<>> before the call, else <<how it ended>>
    obj,           \* the object and flags handed to validate_timeseries
    verdict,       \* <<>> before the call, else <<what it raised, "" if nothing>>
    plots,         \* the plots directory and points.h5 of the simulation directory
    plotted,       \* <<>> or <<the record of the last plot_typical_utci call>>
    stage,         \* the directory's set-up: moisture sources or none, the
                   \* matrix whose computation fails, what the callers ask
    runs,          \* per run (a process with its own result object): the
                   \* call stack, the memoised properties and what it did
    cache          \* the cache files the runs share: who wrote each, in order

\* --------------------------------------- _interpolate_between_unshaded_shaded
RMinOf(S) == CHOOSE x \in S : \A y \in S : RLe(x, y)
RMaxOf(S) == CHOOSE x \in S : \A y \in S : RLe(y, x)

\* y_original[h].min(axis=1) / .max(axis=1): the lower / higher of shaded, unshaded
NewMin(sh, un, h) == RMin(sh[h], un[h])
NewMax(sh, un, h) == RMax(sh[h], un[h])

\* irradiance_grp.min()[grid] / .max()[grid]: groupby over the points of the grid
\* along axis=1, i.e. per hour the lowest / highest irradiance of all points
OldMin(ti, h) == RMinOf({ti[h][q] : q \in Points})
OldMax(ti, h) == RMaxOf({ti[h][q] : q \in Points})

\* mutant: the hour's lowest irradiance gives the shaded value and the highest
\* the unshaded one, whichever of the two is lower
DaytimeValueShadedFirst(sh, un, ti, h, p) ==
    RAdd(RMul(RDiv(RSub(ti[h][p], OldMin(ti, h)),
                   RSub(OldMax(ti, h), OldMin(ti, h))),
              RSub(un[h], sh[h])),
         sh[h])

\* DAYTIME block: one value per sunlit hour and point
DaytimeValue(sh, un, ti, h, p) ==
    RAdd(RMul(RDiv(RSub(ti[h][p], OldMin(ti, h)),
                   RSub(OldMax(ti, h), OldMin(ti, h))),
              RSub(NewMax(sh, un, h), NewMin(sh, un, h))),
         NewMin(sh, un, h))

\* mutant: the sky view taken as a fraction of 50, extrapolating above it
NighttimeValueExtrapolating(sh, un, sv, h, p) ==
    LET slope == RDiv(RSub(un[h], sh[h]), R(50))
    IN  RAdd(RMul(slope, RSub(sv[p], R(SkyViewMin))), sh[h])

\* mutant: y_original stacked as [unshaded, shaded]
NighttimeValueSwapped(sh, un, sv, h, p) ==
    LET slope == RDiv(RSub(sh[h], un[h]), RSub(R(SkyViewMax), R(SkyViewMin)))
    IN  RAdd(RMul(slope, RSub(sv[p], R(SkyViewMin))), un[h])

\* NIGHTTIME block: scipy interp1d([0, 100], [shaded, unshaded])(sky_view)
NighttimeValue(sh, un, sv, h, p) ==
    LET slope == RDiv(RSub(un[h], sh[h]), RSub(R(SkyViewMax), R(SkyViewMin)))
    IN  RAdd(RMul(slope, RSub(sv[p], R(SkyViewMin))), sh[h])

\* pd.concat([nighttime, daytime], axis=0).sort_index()
Concat(sh, un, ti, sv, sun) ==
    [h \in Hours |-> [p \in Points |->
        IF sun[h] THEN DaytimeValue(sh, un, ti, h, p)
        ELSE NighttimeValue(sh, un, sv, h, p)]]

\* DataFrame.interpolate(): per column, linear in position between the valid
\* neighbours; NaN after the last valid value take that value; leading NaN stay
InterpolateColumn(col) ==
    [h \in Hours |->
        IF ~IsNaN(col[h]) THEN col[h]
        ELSE LET before == {i \in Hours : i < h /\ ~IsNaN(col[i])}
                 after == {j \in Hours : j > h /\ ~IsNaN(col[j])}
             IN  IF before = {} THEN NaN
                 ELSE LET i == CHOOSE i \in before : \A k \in before : k <= i
                      IN  IF after = {} THEN col[i]
                          ELSE LET j == CHOOSE j \in after : \A k \in after : j <= k
                               IN  RAdd(col[i],
                                        RMul(RSub(col[j], col[i]),
                                             <<h - i, j - i>>))]

\* .ewm(span).mean() with adjust=True: y_t = sum w^(t-i) x_i / sum w^(t-i),
\* w = 1 - alpha, alpha = 2 / (span + 1); NaN until the first valid value
EwmDecay == RSub(R(1), RDiv(R(2), RAdd(EwmSpan, R(1))))

RECURSIVE EwmNum(_, _), EwmDen(_, _)
EwmNum(col, t) ==
    IF t = 0 \/ IsNaN(col[t]) THEN R(0)
    ELSE RAdd(col[t], RMul(EwmDecay, EwmNum(col, t - 1)))
EwmDen(col, t) ==
    IF t = 0 \/ IsNaN(col[t]) THEN R(0)
    ELSE RAdd(R(1), RMul(EwmDecay, EwmDen(col, t - 1)))

EwmMeanColumn(col) ==
    [t \in Hours |-> IF IsNaN(col[t]) THEN NaN
                     ELSE RDiv(EwmNum(col, t), EwmDen(col, t))]

Column(m, p) == [h \in Hours |-> m[h][p]]
FromColumns(cols) == [h \in Hours |-> [p \in Points |-> cols[p][h]]]

\* .interpolate().ewm(span=1.5).mean() on the concatenated frame
Smooth(m) ==
    Force(FromColumns(Force([p \in Points |->
        Force(EwmMeanColumn(Force(InterpolateColumn(Force(Column(m, p))))))])))

InterpolateBetweenUnshadedShaded(un, sh, ti, sv, sun) ==
    LET c == Force(Concat(sh, un, ti, sv, sun))
    IN  [daytime |-> [h \in {k \in Hours : sun[k]} |-> c[h]],
         nighttime |-> [h \in {k \in Hours : ~sun[k]} |-> c[h]],
         concat |-> c,
         result |-> Smooth(c)]

\* ------------------------------------------------ the interpolation on its own
MRTValues == {20, 40}

\* total_irradiance_matrix / sky_view as loaded: .astype(np.float16)
TotalIrradiance(raw) ==
    Force([h \in Hours |-> [p \in Points |-> Float16(R(raw[h][p]))]])
SkyView(raw) == Force([p \in Points |-> Float16(R(raw[p]))])
Series(raw) == Force([h \in Hours |-> R(raw[h])])


IMin(a, b) == IF a <= b THEN a ELSE b

\* The irradiance of the grid's points at one sunlit hour: rising or falling
\* along the points, the same everywhere, or only the first point lit.
IrradianceRows ==
    { [p \in Points |-> IMin(p - 1, MaxIrradiance)],
      [p \in Points |-> IMin(NumPoints - p, MaxIrradiance)],
      [p \in Points |-> MaxIrradiance],
      [p \in Points |-> IF p = 1 THEN MaxIrradiance ELSE 0] }
DarkRow == [p \in Points |-> 0]

\* The sky view of the grid's points: rising from 0 to 100 along the points,
\* falling from 100 to 0, or open sky everywhere.
SkyProfiles ==
    { [p \in Points |-> (SkyViewMax * (p - 1)) \div (NumPoints - 1)],
      [p \in Points |-> (SkyViewMax * (NumPoints - p)) \div (NumPoints - 1)],
      [p \in Points |-> SkyViewMax] }


\* -------------------------- moisture_source_matrix_unique: the ANGLE MASK
\* the bearings _angle_from_north gives, (angle1 - angle2) % 2 pi in whole degrees
Bearings == 0..(FullCircle - 1)
WindDirections == 0..FullCircle
PlumeBuffer == AngleWidth \div 2

\* mutant: both bounds of the plume inclusive
AngleMaskInclusive(w_s, w_d, a) ==
    IF w_s = 0 THEN TRUE
    ELSE IF w_d > FullCircle - PlumeBuffer
         THEN a >= w_d - PlumeBuffer \/ a <= w_d - FullCircle - w_d
    ELSE IF w_d < 0 + PlumeBuffer
         THEN a <= w_d + PlumeBuffer \/ a >= FullCircle + w_d - PlumeBuffer
    ELSE a <= w_d + PlumeBuffer /\ a >= w_d - PlumeBuffer

\* angle_mask_local for one wind state (w_s, w_d), at a point of bearing a
AngleMask(w_s, w_d, a) ==
    IF w_s = 0 THEN TRUE
    ELSE IF w_d > FullCircle - PlumeBuffer
         THEN a > w_d - PlumeBuffer \/ a < w_d - FullCircle - w_d
    ELSE IF w_d < 0 + PlumeBuffer
         THEN a < w_d + PlumeBuffer \/ a > FullCircle + w_d - PlumeBuffer
    ELSE a < w_d + PlumeBuffer /\ a > w_d - PlumeBuffer

\* ------------------------------------- SpatialComfortResult: the matrices
\* A Python value is <<>> for None and <<m>> for the DataFrame m; a matrix is
\* a function of hour and point.
None == <<>>
Some(m) == <<m>>

IRR == "total_irradiance_matrix"
SKY == "sky_view"
MRT == "mean_radiant_temperature_matrix"
DBT == "dry_bulb_temperature_matrix"
RH == "relative_humidity_matrix"
WS == "wind_speed_matrix"
UTCI == "universal_thermal_climate_index_matrix"
\* the five derived matrices, and every cached property with an .h5 file
Derived == {MRT, DBT, RH, WS, UTCI}
Props == {IRR, SKY} \cup Derived

\* a world: what a property evaluation reads and changes.  computed, written
\* and loaded collect what the running access has done.
World(d, m, o) ==
    [disk |-> d, memo |-> m, onwrite |-> o,
     computed |-> {}, written |-> {}, loaded |-> {}]
Return(w, v) == [w |-> w, ok |-> TRUE, v |-> v]
Raise(w) == [w |-> w, ok |-> FALSE, v |-> None]

\* pd.read_hdf(path, "df")
ReadHdf(w, f) == Return([w EXCEPT !.loaded = @ \cup {f}], Some(w.disk[f][1]))
\* df.to_hdf(path, "df", ...) by the property f, which then returns v
ToHdf(w, f, m, v) ==
    [w EXCEPT !.disk[f] = Some(m), !.written = @ \cup {f},
              !.computed = @ \cup {f}, !.onwrite[f] = Some(v)]

\* @cached_property: the first evaluation that returns is stored and reused
Memoised(w, f) == w.memo[f] # <<>>
FromMemo(w, f) == Return(w, w.memo[f][1])
Store(f, r) == IF r.ok THEN [r EXCEPT !.w.memo[f] = Some(r.v)] ELSE r

\* np.repeat([series], [number of points], axis=0).T
Broadcast(series) == Force([h \in Hours |-> [p \in Points |-> R(series[h])]])
AsFloat16(m) == Force([h \in Hours |-> [p \in Points |-> Float16(m[h][p])]])

\* df.to_hdf(path) and return df
WriteAndReturn(w, f, m) == Return(ToHdf(w, f, m, Some(m)), Some(m))
\* df.to_hdf(path) and the end of the property's body: None
WriteAndFallOff(w, f, m) == Return(ToHdf(w, f, m, None), None)

TotalIrradianceMatrix(w) ==
    IF Memoised(w, IRR) THEN FromMemo(w, IRR)
    ELSE Store(IRR,
        IF w.disk[IRR] # <<>> THEN ReadHdf(w, IRR)
        ELSE WriteAndReturn(w, IRR, TotalIrradiance(irr)))

SkyViewFrame(w) ==
    IF Memoised(w, SKY) THEN FromMemo(w, SKY)
    ELSE Store(SKY,
        IF w.disk[SKY] # <<>> THEN ReadHdf(w, SKY)
        ELSE WriteAndReturn(w, SKY, SkyView(sky)))

\* the arguments of _interpolate_between_unshaded_shaded are evaluated in
\* order: ti is self.total_irradiance_matrix, sv is self.sky_view after it
ProcessMRT(ti, sv) ==
    WriteAndReturn(sv.w, MRT,
        AsFloat16(InterpolateBetweenUnshadedShaded(
            Series(unshaded), Series(shaded), ti.v[1], sv.v[1], sun_up).result))
ProcessMRTWith(ti) == ProcessMRT(ti, SkyViewFrame(ti.w))

MeanRadiantTemperatureMatrix(w) ==
    IF Memoised(w, MRT) THEN FromMemo(w, MRT)
    ELSE Store(MRT,
        IF w.disk[MRT] # <<>> THEN ReadHdf(w, MRT)
        ELSE ProcessMRTWith(TotalIrradianceMatrix(w)))

\* np.repeat of the weather series over the columns of mrt, the evaluated
\* self.mean_radiant_temperature_matrix
BroadcastDBT(mrt) == WriteAndFallOff(mrt.w, DBT, Broadcast(epw.dbt))
BroadcastRH(mrt) == WriteAndFallOff(mrt.w, RH, Broadcast(epw.rh))
BroadcastWS(mrt) == WriteAndReturn(mrt.w, WS, Broadcast(epw.ws))

\* dry_bulb_temperature_matrix with len(moisture_sources) == 0: the branch
\* that builds the frame writes it and falls off the end of the property
DryBulbTemperatureMatrix(w) ==
    IF Memoised(w, DBT) THEN FromMemo(w, DBT)
    ELSE Store(DBT,
        IF w.disk[DBT] # <<>> THEN ReadHdf(w, DBT)
        ELSE BroadcastDBT(MeanRadiantTemperatureMatrix(w)))

\* relative_humidity_matrix with len(moisture_sources) == 0, likewise
RelativeHumidityMatrix(w) ==
    IF Memoised(w, RH) THEN FromMemo(w, RH)
    ELSE Store(RH,
        IF w.disk[RH] # <<>> THEN ReadHdf(w, RH)
        ELSE BroadcastRH(MeanRadiantTemperatureMatrix(w)))

\* wind_speed_matrix: no look at the file before the frame is built and written
WindSpeedMatrix(w) ==
    IF Memoised(w, WS) THEN FromMemo(w, WS)
    ELSE Store(WS, BroadcastWS(MeanRadiantTemperatureMatrix(w)))

\* v_utci(dbt, mrt, ws, rh).astype(np.float16): the polynomial is the
\* library's; its float16 value at the four inputs is kept as the term
\* <<dbt, mrt, ws, rh>>
UtciOf(dbt, mrt, w_s, rh) ==
    Force([h \in Hours |-> [p \in Points |->
        <<dbt[h][p], mrt[h][p], w_s[h][p], rh[h][p]>>]])

\* universal_thermal_climate_index_matrix: the four .values are taken in the
\* order dbt, mrt, ws, rh; .values of None raises AttributeError
ProcessUTCI(dbt, mrt, w_s, rh) ==
    IF rh.v = None THEN Raise(rh.w)
    ELSE WriteAndReturn(rh.w, UTCI, UtciOf(dbt.v[1], mrt.v[1], w_s.v[1], rh.v[1]))
ProcessUTCIWithWS(dbt, mrt, w_s) ==
    ProcessUTCI(dbt, mrt, w_s, RelativeHumidityMatrix(w_s.w))
ProcessUTCIWithMRT(dbt, mrt) ==
    ProcessUTCIWithWS(dbt, mrt, WindSpeedMatrix(mrt.w))
ProcessUTCIWithDBT(dbt) ==
    IF dbt.v = None THEN Raise(dbt.w)
    ELSE ProcessUTCIWithMRT(dbt, MeanRadiantTemperatureMatrix(dbt.w))

UniversalThermalClimateIndexMatrix(w) ==
    IF Memoised(w, UTCI) THEN FromMemo(w, UTCI)
    ELSE Store(UTCI,
        IF w.disk[UTCI] # <<>> THEN ReadHdf(w, UTCI)
        ELSE ProcessUTCIWithDBT(DryBulbTemperatureMatrix(w)))

\* ------------------------------------------------- the result object's life
\* what an earlier run of other inputs left in a derived matrix's cache file
Stale == Force([h \in Hours |-> [p \in Points |-> R(99)]])

\* the weather years: dry bulb rising or falling over the hours
WeatherYears ==
    { [dbt |-> [h \in Hours |-> 10 * h], rh |-> [h \in Hours |-> 90 - 10 * h],
       ws |-> [h \in Hours |-> IMin(h - 1, MaxWindSpeed)]],
      [dbt |-> [h \in Hours |-> 30 - 5 * h], rh |-> [h \in Hours |-> 40 + 10 * h],
       ws |-> [h \in Hours |-> IMin(NumHours - h, MaxWindSpeed)]] }

field_vars == <<sources, grid, winds, field>>
ctor_vars == <<site, built>>
evap_vars == <<air, cooled>>
pool_vars == <<typologies, futures, pc, results>>
smooth_vars == <<the_series, smoothed>>
utci_vars == <<arrays, utci>>
valid_vars == <<obj, verdict>>
plot_vars == <<plots, plotted>>
order_vars == <<stage>>
race_vars == <<runs, cache>>
later_vars == <<smooth_vars, utci_vars, valid_vars, plot_vars, order_vars, race_vars>>
vars == <<shaded, unshaded, sun_up, irr, sky, interp, ws, wd, angle_mask,
          epw, disk, memo, onwrite, ret,
          field_vars, ctor_vars, evap_vars, pool_vars, later_vars>>
inputs == <<shaded, unshaded, sun_up, irr, sky, epw>>

\* the variables of the other specifications, at rest
MaskIdle == ws = 0 /\ wd = 0 /\ angle_mask = <<>>
InterpIdle == interp = <<>>
FieldIdle == sources = <<>> /\ grid = <<>> /\ winds = <<>> /\ field = <<>>
CtorIdle == site = <<>> /\ built = <<>>
EvapIdle == air = <<>> /\ cooled = <<>>
PoolIdle == typologies = <<>> /\ futures = <<>> /\ pc = "idle" /\ results = <<>>
SmoothIdle == the_series = <<>> /\ smoothed = <<>>
UtciIdle == arrays = <<>> /\ utci = <<>>
ValidIdle == obj = <<>> /\ verdict = <<>>
PlotIdle == plots = <<>> /\ plotted = <<>>
OrderIdle == stage = <<>>
RaceIdle == runs = <<>> /\ cache = <<>>
LaterIdle == SmoothIdle /\ UtciIdle /\ ValidIdle /\ PlotIdle /\ OrderIdle /\ RaceIdle
\* the variables of the specifications above these, at rest and left alone
earlier_vars == <<inputs, interp, ws, wd, angle_mask, disk, memo, onwrite, ret,
                  field_vars, ctor_vars, evap_vars, pool_vars>>
ObjectIdle ==
    /\ epw \in {y \in WeatherYears : y.dbt[1] = 10}
    /\ disk = [f \in Props |-> <<>>]
    /\ memo = [f \in Props |-> <<>>]
    /\ onwrite = [f \in Props |-> <<>>]
    /\ ret = <<>>
InputsIdle ==
    /\ shaded = [h \in Hours |-> 20]
    /\ unshaded = [h \in Hours |-> 40]
    /\ sun_up = [h \in Hours |-> FALSE]
    /\ irr = [h \in Hours |-> DarkRow]
    /\ sky = [p \in Points |-> SkyViewMax]
EarlierIdle ==
    /\ InputsIdle /\ InterpIdle /\ ObjectIdle /\ MaskIdle
    /\ FieldIdle /\ CtorIdle /\ EvapIdle /\ PoolIdle

\* ---- the interpolation on its own
\* Rows of total_irradiance of hours with the sun down are never read by the
\* interpolation (total_irradiance[sun_up_bool]); they are held at 0.
InitInputs ==
    /\ shaded \in [Hours -> MRTValues]
    /\ unshaded \in [Hours -> MRTValues]
    /\ sun_up \in [Hours -> BOOLEAN]
    /\ irr \in [Hours -> IrradianceRows \cup {DarkRow}]
    /\ \A h \in Hours : sun_up[h] <=> irr[h] \in IrradianceRows
    /\ sky \in SkyProfiles

InitMRT ==
    /\ InitInputs
    /\ interp = <<>>
    /\ MaskIdle /\ ObjectIdle
    /\ FieldIdle /\ CtorIdle /\ EvapIdle /\ PoolIdle /\ LaterIdle

Interpolate ==
    /\ interp = <<>>
    /\ interp' = <<InterpolateBetweenUnshadedShaded(
                      Series(unshaded), Series(shaded),
                      TotalIrradiance(irr), SkyView(sky), sun_up)>>
    /\ UNCHANGED <<inputs, ws, wd, angle_mask, disk, memo, onwrite, ret>>
    /\ UNCHANGED <<field_vars, ctor_vars, evap_vars, pool_vars, later_vars>>

NextMRT == Interpolate

SpecMRT == InitMRT /\ [][NextMRT]_vars

\* ---- the angle mask on its own
InitMask ==
    /\ ws \in 0..MaxWindSpeed
    /\ wd \in WindDirections
    /\ angle_mask = <<>>
    /\ InputsIdle /\ InterpIdle /\ ObjectIdle
    /\ FieldIdle /\ CtorIdle /\ EvapIdle /\ PoolIdle /\ LaterIdle

ComputeAngleMask ==
    /\ angle_mask = <<>>
    /\ angle_mask' = <<[a \in Bearings |-> AngleMask(ws, wd, a)]>>
    /\ UNCHANGED <<ws, wd, inputs, interp, disk, memo, onwrite, ret>>
    /\ UNCHANGED <<field_vars, ctor_vars, evap_vars, pool_vars, later_vars>>

NextMask == ComputeAngleMask

SpecMask == InitMask /\ [][NextMask]_vars

\* ---- the result object
\* A simulation directory as a run finds it: the loaders' caches absent or as
\* the loaders write them, each derived matrix's cache absent or left by an
\* earlier run; a result object that has evaluated nothing.
\* the simulation directory and a new result object on it
InitObject ==
    /\ shaded = [h \in Hours |-> 20]
    /\ unshaded = [h \in Hours |-> 40]
    /\ sun_up \in {[h \in Hours |-> FALSE], [h \in Hours |-> h = 2]}
    /\ irr = [h \in Hours |-> IF sun_up[h] THEN [p \in Points |-> IMin(p - 1, MaxIrradiance)]
                              ELSE DarkRow]
    /\ sky = [p \in Points |-> (SkyViewMax * (p - 1)) \div (NumPoints - 1)]
    /\ epw \in WeatherYears
    /\ \E left \in SUBSET Derived :
           disk = [f \in Props |-> IF f \in left THEN Some(Stale) ELSE <<>>]
    /\ memo = [f \in Props |-> <<>>]
    /\ onwrite = [f \in Props |-> <<>>]
    /\ ret = <<>>
    /\ MaskIdle /\ InterpIdle
    /\ FieldIdle /\ CtorIdle /\ EvapIdle /\ PoolIdle

Init == InitObject /\ LaterIdle

\* the object as the caller finds it
Here == World(disk, memo, onwrite)

\* result.<f>: one access of the property f by the caller, r its evaluation
Access(f, r) ==
    /\ disk' = r.w.disk
    /\ memo' = r.w.memo
    /\ onwrite' = r.w.onwrite
    /\ ret' = <<[prop |-> f, ok |-> r.ok, value |-> r.v,
                 before |-> disk[f], memoised |-> memo[f] # <<>>,
                 computed |-> r.w.computed, written |-> r.w.written,
                 loaded |-> r.w.loaded]>>
    /\ UNCHANGED <<inputs, interp, ws, wd, angle_mask>>
    /\ UNCHANGED <<field_vars, ctor_vars, evap_vars, pool_vars, later_vars>>

AccessMRT == Access(MRT, MeanRadiantTemperatureMatrix(Here))
AccessDBT == Access(DBT, DryBulbTemperatureMatrix(Here))
AccessRH == Access(RH, RelativeHumidityMatrix(Here))
AccessWS == Access(WS, WindSpeedMatrix(Here))
AccessUTCI == Access(UTCI, UniversalThermalClimateIndexMatrix(Here))

\* SpatialComfortResult(spatial_comfort): a later run on the same directory
NewResult ==
    /\ ret # <<>>
    /\ memo' = [f \in Props |-> <<>>]
    /\ ret' = <<>>
    /\ UNCHANGED <<inputs, interp, ws, wd, angle_mask, disk, onwrite>>
    /\ UNCHANGED <<field_vars, ctor_vars, evap_vars, pool_vars, later_vars>>

\* somebody removes the cache file f from the simulation directory
DeleteFile(f) ==
    /\ disk[f] # <<>>
    /\ disk' = [disk EXCEPT ![f] = <<>>]
    /\ onwrite' = [onwrite EXCEPT ![f] = <<>>]
    /\ UNCHANGED <<inputs, interp, ws, wd, angle_mask, memo, ret>>
    /\ UNCHANGED <<field_vars, ctor_vars, evap_vars, pool_vars, later_vars>>

Next ==
    \/ AccessMRT
    \/ AccessDBT
    \/ AccessRH
    \/ AccessWS
    \/ AccessUTCI
    \/ NewResult

Spec == Init /\ [][Next]_vars

\* ---- the result object with spatial_moisture_properties called directly
\* spatial_moisture_properties() with len(moisture_sources) == 0: both files
\* are loaded if both exist; else both frames are built (the MRT matrix
\* gives their shape) and both files are written
WriteBoth(mrt) ==
    Return(ToHdf(ToHdf(mrt.w, DBT, Broadcast(epw.dbt), Some(Broadcast(epw.dbt))),
                 RH, Broadcast(epw.rh), Some(Broadcast(epw.rh))),
           <<Broadcast(epw.dbt), Broadcast(epw.rh)>>)
SpatialMoistureProperties(w) ==
    IF w.disk[DBT] # <<>> /\ w.disk[RH] # <<>>
    THEN Return([w EXCEPT !.loaded = @ \cup {DBT, RH}], <<w.disk[DBT][1], w.disk[RH][1]>>)
    ELSE WriteBoth(MeanRadiantTemperatureMatrix(w))

SMP == "spatial_moisture_properties"
CallSpatialMoistureProperties ==
    /\ disk' = SpatialMoistureProperties(Here).w.disk
    /\ memo' = SpatialMoistureProperties(Here).w.memo
    /\ onwrite' = SpatialMoistureProperties(Here).w.onwrite
    /\ ret' = <<[prop |-> SMP, ok |-> SpatialMoistureProperties(Here).ok,
                 value |-> SpatialMoistureProperties(Here).v,
                 before |-> [f \in {DBT, RH} |-> disk[f]], memoised |-> FALSE,
                 computed |-> SpatialMoistureProperties(Here).w.computed,
                 written |-> SpatialMoistureProperties(Here).w.written,
                 loaded |-> SpatialMoistureProperties(Here).w.loaded]>>
    /\ UNCHANGED <<inputs, interp, ws, wd, angle_mask>>
    /\ UNCHANGED <<field_vars, ctor_vars, evap_vars, pool_vars, later_vars>>

NextProps ==
    \/ AccessMRT
    \/ AccessDBT
    \/ AccessRH
    \/ AccessWS
    \/ AccessUTCI
    \/ NewResult
    \/ CallSpatialMoistureProperties

SpecProps == Init /\ [][NextProps]_vars

\* ---- the result object on a directory whose cache files come and go
\* a directory no run has written a cache file to
InitEmpty == Init /\ \A f \in Props : disk[f] = <<>>

NextLife ==
    \/ AccessMRT
    \/ AccessDBT
    \/ AccessRH
    \/ AccessWS
    \/ AccessUTCI
    \/ NewResult
    \/ \E f \in Props : DeleteFile(f)

SpecLife == InitEmpty /\ [][NextLife]_vars

\* ----------------------------------------- moisture_source_matrix_unique
\* Positions are <<x, y>>.  A distance is kept as its square, which is all
\* the parabolic curve reads; the vectors of the layouts below run along the
\* axes or the diagonals, where a bearing is a whole number of degrees.
MaxSources == 2

\* distance_around_sources_in_calm_wind
DistanceAroundSourcesInCalmWind == 5
\* wind_speed_multiplier_for_distances
WindSpeedMultiplierForDistances == 10

\* moisture_source_vectors: np.subtract(source point, grid point)
Vector(src, pt) == <<src[1] - pt[1], src[2] - pt[2]>>
\* moisture_source_distances: np.linalg.norm, squared
Distance2(v) == v[1] * v[1] + v[2] * v[2]
Aligned(v) == v[1] = 0 \/ v[2] = 0 \/ Abs(v[1]) = Abs(v[2])
\* _angle_from_north: (arctan2(1, 0) - arctan2(y, x)) % 2 pi in degrees,
\* for an aligned vector; arctan2(0, 0) is 0, so the zero vector bears 90
AngleFromNorth(v) ==
    IF v[1] = 0 THEN (IF v[2] > 0 THEN 0 ELSE IF v[2] < 0 THEN 180 ELSE 90)
    ELSE IF v[1] > 0 THEN (IF v[2] > 0 THEN 45 ELSE IF v[2] = 0 THEN 90 ELSE 135)
    ELSE (IF v[2] < 0 THEN 225 ELSE IF v[2] = 0 THEN 270 ELSE 315)

\* np.interp(distance, [0, max_distance], [0, 1]), squared
Interp01Squared(d2, max_distance) ==
    IF d2 >= max_distance * max_distance THEN R(1)
    ELSE RDiv(R(d2), R(max_distance * max_distance))

\* mutant: the distance is not clamped at max_distance
DistributeWithoutClamp(magnitude, d2, max_distance) ==
    RMul(RSub(R(1), RDiv(R(d2), R(max_distance * max_distance))), magnitude)
\* mutant: the normalised distance itself is scaled
DistributeRising(magnitude, d2, max_distance) ==
    RMul(Interp01Squared(d2, max_distance), magnitude)
\* _distribute(magnitude, distance, max_distance, "parabolic"):
\* (-(distance ** 2) + 1) * magnitude
Distribute(magnitude, d2, max_distance) ==
    RMul(RSub(R(1), Interp01Squared(d2, max_distance)), magnitude)

\* the max_distance handed to _distribute for a wind speed
MaxDistance(w_s) ==
    IF w_s = 0 THEN DistanceAroundSourcesInCalmWind
    ELSE w_s * WindSpeedMultiplierForDistances

\* np.where(angle_mask_local, magnitude_matrix_local, 0) at grid position pt
\* and source point sp, for the WindState w
MaskedMagnitude(magnitude, w, pt, sp) ==
    IF AngleMask(w[1], w[2], AngleFromNorth(Vector(sp, pt)))
    THEN Distribute(magnitude, Distance2(Vector(sp, pt)), MaxDistance(w[1]))
    ELSE R(0)

\* POINT-IN-TIME MOISTURE MATRIX: np.amax(..., axis=1), over the source's points
PointInTime(src, w, pt) ==
    RMaxOf({MaskedMagnitude(src.magnitude, w, pt, sp) : sp \in src.points})

\* the moisture_matrix list of one source: per WindState, per grid point
GenerateSource(src, uniq, g) ==
    Force([k \in DOMAIN uniq |-> [p \in DOMAIN g |-> PointInTime(src, uniq[k], g[p])]])

RECURSIVE RSumOf(_, _)
RSumOf(f, D) ==
    IF D = {} THEN R(0)
    ELSE LET i == CHOOSE x \in D : TRUE IN RAdd(f[i], RSumOf(f, D \ {i}))
\* mutant: the sources add
AmaxAxis0Summed(mats) ==
    IF mats = <<>> THEN [ok |-> FALSE, v |-> <<>>]
    ELSE [ok |-> TRUE,
          v |-> <<Force([k \in DOMAIN mats[1] |-> [p \in DOMAIN mats[1][k] |->
                    RSumOf([i \in DOMAIN mats |-> mats[i][k][p]], DOMAIN mats)]])>>]
\* np.amax(moisture_source_matrices, axis=0): the maximum over the sources;
\* of an empty list it raises ValueError (a reduction of a zero-size array)
AmaxAxis0(mats) ==
    IF mats = <<>> THEN [ok |-> FALSE, v |-> <<>>]
    ELSE [ok |-> TRUE,
          v |-> <<Force([k \in DOMAIN mats[1] |-> [p \in DOMAIN mats[1][k] |->
                    RMaxOf({mats[i][k][p] : i \in DOMAIN mats})]])>>]

\* np.unique(wind_speed_direction, axis=0): the distinct rows, sorted
PairLe(a, b) == a[1] < b[1] \/ (a[1] = b[1] /\ a[2] <= b[2])
RECURSIVE SortPairs(_)
SortPairs(S) ==
    IF S = {} THEN <<>>
    ELSE LET m == CHOOSE x \in S : \A y \in S : PairLe(x, y)
         IN  <<m>> \o SortPairs(S \ {m})
WindSpeedDirectionUnique(wsd) == SortPairs({wsd[h] : h \in DOMAIN wsd})
\* mutant: hour h takes row h of the unique field
WindSpeedDirectionIndicesInOrder(wsd, uniq) ==
    [h \in DOMAIN wsd |-> IMin(h, Len(uniq))]
\* np.all(unique == ws_wd, axis=1).argmax(): the first row that matches
WindSpeedDirectionIndices(wsd, uniq) ==
    [h \in DOMAIN wsd |-> CHOOSE k \in DOMAIN uniq :
        uniq[k] = wsd[h] /\ \A j \in 1..(k - 1) : uniq[j] # wsd[h]]

\* the per-source matrices: np.load of an existing <pathsafe_id>.npy, else
\* the generated one
SourceMatrices(srcs, uniq, g) ==
    [i \in DOMAIN srcs |->
        IF srcs[i].file # <<>> THEN srcs[i].file[1]
        ELSE GenerateSource(srcs[i], uniq, g)]

\* moisture_source_matrix_unique: the files it leaves (np.save of each
\* generated matrix), the sources it generated, and its value or error
UniqueRecord(srcs, mats) ==
    [files |-> [i \in DOMAIN srcs |-> <<mats[i]>>],
     generated |-> {i \in DOMAIN srcs : srcs[i].file = <<>>},
     loaded |-> {i \in DOMAIN srcs : srcs[i].file # <<>>},
     result |-> AmaxAxis0(mats)]
MoistureSourceMatrixUnique(srcs, uniq, g) ==
    UniqueRecord(srcs, SourceMatrices(srcs, uniq, g))

\* moisture_matrix: the field of each hour's WindState, as float16; its first
\* argument, the unique field, is evaluated first, and its error is the
\* property's.  (The labels are those of mean_radiant_temperature_matrix.)
MoistureMatrix(u, idx) ==
    IF ~u.result.ok THEN [ok |-> FALSE, v |-> <<>>]
    ELSE [ok |-> TRUE,
          v |-> <<Force([h \in DOMAIN idx |-> [p \in DOMAIN u.result.v[1][idx[h]] |->
                    Float16(u.result.v[1][idx[h]][p])]])>>]

\* ---- the moisture field on its own
\* the grid of the end-to-end scenario, (0,0), (5,0), (10,0); further points
\* north of the middle one
GridAt(p) == IF p <= 3 THEN <<5 * (p - 1), 0>> ELSE <<5, 5 * (p - 3)>>
Lattice == {-5, 0, 5, 10} \X {-5, 0, 5}
SourcePositions ==
    {pos \in Lattice : \A p \in Points : Aligned(Vector(pos, GridAt(p)))}
\* a point source, or the two ends of a boundary along the grid's axis
SourceShapes ==
    {{a} : a \in SourcePositions} \cup
    {{a, b} : a, b \in {c \in SourcePositions : c[2] = 0}}
Magnitudes == {<<1, 2>>, <<1, 1>>}
\* the year's hourly <<wind speed, wind direction>>
WindYears ==
    { [h \in Hours |-> <<0, 0>>],
      [h \in Hours |-> <<IMin(h - 1, MaxWindSpeed), 90>>],
      [h \in Hours |-> <<MaxWindSpeed, (45 * h) % (FullCircle + 1)>>],
      [h \in Hours |-> <<1, 264 + 6 * ((h - 1) % 3)>>],
      [h \in Hours |-> <<1, FullCircle - 45 * ((h - 1) % 3)>>] }

UniqueOf(wsd) == WindSpeedDirectionUnique(wsd)
\* a source: its file absent, or left by an earlier run on the same inputs
SourcesOn(wsd, g) ==
    UNION {[1..n ->
              {[magnitude |-> m, points |-> sh, file |-> f] :
                  m \in Magnitudes, sh \in SourceShapes, f \in {<<>>}} \cup
              {[magnitude |-> m, points |-> sh,
                file |-> <<GenerateSource([magnitude |-> m, points |-> sh], UniqueOf(wsd), g)>>] :
                  m \in Magnitudes, sh \in {{a} : a \in SourcePositions}}]
           : n \in 0..MaxSources}

InitField ==
    /\ grid = [p \in Points |-> GridAt(p)]
    /\ winds \in WindYears
    /\ sources \in SourcesOn(winds, grid)
    /\ field = <<>>
    /\ InputsIdle /\ InterpIdle /\ ObjectIdle /\ MaskIdle
    /\ CtorIdle /\ EvapIdle /\ PoolIdle /\ LaterIdle

\* result.moisture_matrix, u the evaluation of moisture_source_matrix_unique
AccessMoisture(uniq, u) ==
    /\ field = <<>>
    /\ field' = <<[unique |-> uniq, generated |-> u.generated, loaded |-> u.loaded,
                   result |-> u.result,
                   matrix |-> MoistureMatrix(u, WindSpeedDirectionIndices(winds, uniq))]>>
    /\ sources' = [i \in DOMAIN sources |-> [sources[i] EXCEPT !.file = u.files[i]]]
    /\ UNCHANGED <<grid, winds>>
    /\ UNCHANGED <<inputs, interp, ws, wd, angle_mask, disk, memo, onwrite, ret>>
    /\ UNCHANGED <<ctor_vars, evap_vars, pool_vars, later_vars>>

AccessMoistureMatrix ==
    AccessMoisture(UniqueOf(winds),
                   MoistureSourceMatrixUnique(sources, UniqueOf(winds), grid))

NextField == AccessMoistureMatrix

SpecField == InitField /\ [][NextField]_vars

\* ---------------------------------------------------- evaporative cooling
\* relative humidity of saturated air, percent
SaturatedRH == 100

\* new_dbt = dry_bulb_temperature - (dry_bulb_temperature - wet_bulb_temperature) * e
CooledDbt(dbt, wbt, e) == RSub(dbt, RMul(RSub(dbt, wbt), e))
\* new_rh = relative_humidity * (1 - e) + e * 100
CooledRh(rh, e) == RAdd(RMul(rh, RSub(R(1), e)), RMul(e, R(SaturatedRH)))

\* mutant: the effectiveness weighs the wrong side
EvaporativeCoolingEffectInverted(dbt, rh, e, wbt) ==
    IF RLt(R(SaturatedRH), CooledRh(rh, RSub(R(1), e)))
    THEN [dbt |-> wbt, rh |-> R(SaturatedRH)]
    ELSE [dbt |-> CooledDbt(dbt, wbt, RSub(R(1), e)), rh |-> CooledRh(rh, RSub(R(1), e))]
\* helpers.evaporative_cooling_effect; wbt is what wet_bulb_from_db_rh gave
EvaporativeCoolingEffect(dbt, rh, e, wbt) ==
    IF RLt(R(SaturatedRH), CooledRh(rh, e))
    THEN [dbt |-> wbt, rh |-> R(SaturatedRH)]
    ELSE [dbt |-> CooledDbt(dbt, wbt, e), rh |-> CooledRh(rh, e)]

\* the collection arithmetic, hour by hour: no saturation check
CooledCollections(rows, e) ==
    [h \in DOMAIN rows |-> [dbt |-> CooledDbt(rows[h].dbt, rows[h].wbt, e),
                            rh |-> CooledRh(rows[h].rh, e)]]

\* helpers.evaporative_cooling_effect_collection
EvaporativeCoolingEffectCollection(rows, e) ==
    IF RLt(R(1), e) \/ RLt(e, R(0)) THEN [ok |-> FALSE, v |-> <<>>]
    ELSE [ok |-> TRUE, v |-> CooledCollections(rows, e)]

\* TypologyResult.evaporatively_cooled_dbt_rh
EvaporativelyCooledDbtRh(rows, e) == [ok |-> TRUE, v |-> CooledCollections(rows, e)]

\* ---- evaporative cooling on its own
DryBulbs == {R(10), R(20)}
\* what wet_bulb_from_db_rh returns is the psychrometric library's business
WetBulbs == {R(5), R(10), R(20)}
RelativeHumidities == {R(0), R(50), R(SaturatedRH), R(105)}
Effectivenesses == {<<-1, 5>>, R(0), <<3, 10>>, R(1), <<6, 5>>}

AirRows == {[dbt |-> d, rh |-> r, wbt |-> w] :
                d \in DryBulbs, r \in RelativeHumidities, w \in WetBulbs}
\* the hours of an EPW: dry and humid, saturated, and above saturation
EpwRows == {[dbt |-> R(20), rh |-> R(50), wbt |-> R(10)],
            [dbt |-> R(10), rh |-> R(SaturatedRH), wbt |-> R(10)],
            [dbt |-> R(20), rh |-> R(105), wbt |-> R(20)]}

InitEvap ==
    /\ air \in {<<[rows |-> rows, e |-> e]>> :
                  rows \in {<<a>> : a \in AirRows} \cup [Hours -> EpwRows],
                  e \in Effectivenesses}
    /\ cooled = <<>>
    /\ InputsIdle /\ InterpIdle /\ ObjectIdle /\ MaskIdle
    /\ FieldIdle /\ CtorIdle /\ PoolIdle /\ LaterIdle

Cooled(fn, out) ==
    /\ cooled = <<>>
    /\ cooled' = <<[fn |-> fn, ok |-> out.ok, v |-> out.v]>>
    /\ UNCHANGED air
    /\ UNCHANGED <<inputs, interp, ws, wd, angle_mask, disk, memo, onwrite, ret>>
    /\ UNCHANGED <<field_vars, ctor_vars, pool_vars, later_vars>>

\* evaporative_cooling_effect(dbt, rh, e, atm): one value of each
CallEvaporativeCoolingEffect ==
    /\ Len(air[1].rows) = 1
    /\ Cooled("evaporative_cooling_effect",
              [ok |-> TRUE,
               v |-> <<EvaporativeCoolingEffect(air[1].rows[1].dbt, air[1].rows[1].rh,
                                                air[1].e, air[1].rows[1].wbt)>>])

\* evaporative_cooling_effect_collection(epw, e)
CallEvaporativeCoolingEffectCollection ==
    Cooled("evaporative_cooling_effect_collection",
           EvaporativeCoolingEffectCollection(air[1].rows, air[1].e))

\* TypologyResult.__post_init__: evaporatively_cooled_dbt_rh(epw, e)
CallEvaporativelyCooledDbtRh ==
    Cooled("evaporatively_cooled_dbt_rh",
           EvaporativelyCooledDbtRh(air[1].rows, air[1].e))

NextEvap ==
    \/ CallEvaporativeCoolingEffect
    \/ CallEvaporativeCoolingEffectCollection
    \/ CallEvaporativelyCooledDbtRh

SpecEvap == InitEvap /\ [][NextEvap]_vars

\* ------------------------------------------------ SpatialComfort.__init__
\* MoistureSource.from_json on the state of moisture_sources.json:
\* "absent", "malformed", "empty" (a list of no sources) or "sources"
FromJson(moisture) ==
    IF moisture = "absent" THEN [error |-> "FileNotFoundError", v |-> <<>>]
    ELSE IF moisture = "malformed" THEN [error |-> "ValueError", v |-> <<>>]
    ELSE IF moisture = "empty" THEN [error |-> "", v |-> <<>>]
    ELSE [error |-> "", v |-> <<"source">>]

\* mutant: any number of result files passes for one analysis grid
SimulationValidityAnyGrid(s) ==
    IF ~s.irr_dir \/ s.n_ill = 0 THEN "annual_irradiance"
    ELSE IF ~s.sky_dir \/ s.n_res = 0 THEN "sky_view"
    ELSE ""
\* _simulation_validity: "" when it returns, else what its ValueError is about
SimulationValidity(s) ==
    IF ~s.irr_dir \/ s.n_ill = 0 THEN "annual_irradiance"
    ELSE IF ~s.sky_dir \/ s.n_res = 0 THEN "sky_view"
    ELSE IF s.n_res_top # 1 THEN "single grid"
    ELSE ""

\* how the constructor ends: error "" when it returns the object
Outcome(error, about, warned, moisture_sources) ==
    [error |-> error, about |-> about, warned |-> warned,
     moisture_sources |-> moisture_sources]

\* mutant: the missing file is not caught
LoadMoistureSourcesUncaught(j) ==
    IF j.error # "" THEN Outcome(j.error, "moisture_sources", FALSE, <<>>)
    ELSE IF Len(j.v) = 0 THEN Outcome("ValueError", "moisture_sources", FALSE, <<>>)
    ELSE Outcome("", "", FALSE, j.v)
\* _load_moisture_sources, j what MoistureSource.from_json did
LoadMoistureSources(j) ==
    IF j.error = "FileNotFoundError" THEN Outcome("", "", TRUE, <<>>)
    ELSE IF j.error # "" THEN Outcome(j.error, "moisture_sources", FALSE, <<>>)
    ELSE IF Len(j.v) = 0 THEN Outcome("ValueError", "moisture_sources", FALSE, <<>>)
    ELSE Outcome("", "", FALSE, j.v)

\* SpatialComfort(simulation_directory, external_comfort_result)
SpatialComfortInit(s) ==
    IF SimulationValidity(s) # ""
    THEN Outcome("ValueError", SimulationValidity(s), FALSE, <<>>)
    ELSE LoadMoistureSources(FromJson(s.moisture))

\* ---- the constructor on its own
MaxFiles == 2

\* a directory that does not exist holds no files; the files directly in
\* sky_view/results are among those anywhere below it
Sites ==
    {s \in [irr_dir : BOOLEAN, n_ill : 0..MaxFiles,
            sky_dir : BOOLEAN, n_res : 0..MaxFiles, n_res_top : 0..MaxFiles,
            points : BOOLEAN,
            moisture : {"absent", "malformed", "empty", "sources"}] :
        /\ ~s.irr_dir => s.n_ill = 0
        /\ ~s.sky_dir => s.n_res = 0
        /\ s.n_res_top <= s.n_res}

InitCtor ==
    /\ site \in {<<s>> : s \in Sites}
    /\ built = <<>>
    /\ InputsIdle /\ InterpIdle /\ ObjectIdle /\ MaskIdle
    /\ FieldIdle /\ EvapIdle /\ PoolIdle /\ LaterIdle

Construct ==
    /\ built = <<>>
    /\ built' = <<SpatialComfortInit(site[1])>>
    /\ UNCHANGED site
    /\ UNCHANGED <<inputs, interp, ws, wd, angle_mask, disk, memo, onwrite, ret>>
    /\ UNCHANGED <<field_vars, evap_vars, pool_vars, later_vars>>

NextCtor == Construct

SpecCtor == InitCtor /\ [][NextCtor]_vars

\* ---------------------------------------------- calculate_typology_results
MaxTypologies == 3

\* what the caller may put in the list: Typology objects (the construction of
\* the result of one of them raises) and an object of another type
ListElements ==
    {[kind |-> "Typology", name |-> "a", fails |-> FALSE],
     [kind |-> "Typology", name |-> "b", fails |-> FALSE],
     [kind |-> "Typology", name |-> "c", fails |-> TRUE],
     [kind |-> "str", name |-> "d", fails |-> FALSE]}

\* TypologyResult(typology, external_comfort_result)
TypologyResultOf(typology) == [typology |-> typology.name]

\* all(isinstance(x, Typology) for x in typologies)
AllTypologies(ts) == \A i \in DOMAIN ts : ts[i].kind = "Typology"

\* a future: rank is its place in the order the workers finished in
Submitted == [done |-> FALSE, rank |-> 0, ok |-> TRUE, v |-> <<>>]
NumDone(futs) == Cardinality({i \in DOMAIN futs : futs[i].done})
Finished(futs, typology) ==
    [done |-> TRUE, rank |-> NumDone(futs) + 1, ok |-> ~typology.fails,
     v |-> IF typology.fails THEN <<>> ELSE <<TypologyResultOf(typology)>>]

\* mutant: the futures are taken as they complete
CollectedAsCompleted(futs, k) == CHOOSE i \in DOMAIN futs : futs[i].rank = k
\* for result in results: the future whose result is appended k-th
Collected(futs, k) == k

InitPool ==
    /\ typologies \in UNION {[1..n -> ListElements] : n \in 0..MaxTypologies}
    /\ futures = <<>>
    /\ pc = "idle"
    /\ results = <<>>
    /\ InputsIdle /\ InterpIdle /\ ObjectIdle /\ MaskIdle
    /\ FieldIdle /\ CtorIdle /\ EvapIdle /\ LaterIdle

PoolStep ==
    /\ UNCHANGED typologies
    /\ UNCHANGED <<inputs, interp, ws, wd, angle_mask, disk, memo, onwrite, ret>>
    /\ UNCHANGED <<field_vars, ctor_vars, evap_vars, later_vars>>

\* the call: the type check comes before the executor is made
Call ==
    /\ pc = "idle"
    /\ pc' = IF AllTypologies(typologies) THEN "submitting" ELSE "ValueError"
    /\ UNCHANGED <<futures, results>>
    /\ PoolStep

\* executor.submit(TypologyResult, typology, external_comfort_result)
Submit ==
    /\ pc = "submitting"
    /\ Len(futures) < Len(typologies)
    /\ futures' = Append(futures, Submitted)
    /\ UNCHANGED <<pc, results>>
    /\ PoolStep

\* a worker thread ends the call of future i, by a value or an exception
WorkerFinish(i) ==
    /\ ~futures[i].done
    /\ futures' = [futures EXCEPT ![i] = Finished(futures, typologies[i])]
    /\ UNCHANGED <<pc, results>>
    /\ PoolStep

\* the end of the with block: shutdown(wait=True) returns when all are done
ExitWith ==
    /\ pc = "submitting"
    /\ Len(futures) = Len(typologies)
    /\ \A i \in DOMAIN futures : futures[i].done
    /\ pc' = "collecting"
    /\ UNCHANGED <<futures, results>>
    /\ PoolStep

\* typology_results.append(result.result()): result() raises what the call raised
Collect(f) ==
    /\ pc = "collecting"
    /\ Len(results) < Len(futures)
    /\ IF f.ok THEN results' = results \o f.v /\ UNCHANGED pc
               ELSE pc' = "raised" /\ UNCHANGED results
    /\ UNCHANGED futures
    /\ PoolStep

CollectNext == Collect(futures[Collected(futures, Len(results) + 1)])

ReturnResults ==
    /\ pc = "collecting"
    /\ Len(results) = Len(futures)
    /\ pc' = "returned"
    /\ UNCHANGED <<futures, results>>
    /\ PoolStep

NextPool ==
    \/ Call
    \/ Submit
    \/ \E i \in DOMAIN futures : WorkerFinish(i)
    \/ ExitWith
    \/ CollectNext
    \/ ReturnResults

SpecPool == InitPool /\ [][NextPool]_vars

\* --------------------------------------------------- decay_rate_smoother
SeriesLen == 5
\* difference_threshold, the default of both smoothers
DifferenceThreshold == -10
\* ewm_span = 1.25: alpha = 2 / (span + 1) = 8/9, so 1 - alpha = 1/9
SmootherDecay == <<1, 9>>

\* series.diff() < difference_threshold; the first difference is NaN
TransitionIndex(s) ==
    [t \in DOMAIN s |-> t > 1 /\ s[t] - s[t - 1] < DifferenceThreshold]

\* the value of n when the loop reaches position t: n = 0 before the loop,
\* reset at a transition, and counted up after every position
RECURSIVE CounterAt(_, _)
CounterAt(ti, t) ==
    IF ti[t] THEN 0
    ELSE IF t = 1 THEN 0
    ELSE CounterAt(ti, t - 1) + 1

\* ewm_mask: n < transition_window
EwmMask(ti, window) == [t \in DOMAIN ti |-> CounterAt(ti, t) < window]

\* series.ewm(span=ewm_span).mean() (adjust=True): the weighted mean of the
\* values so far, the weight falling by 1 - alpha per step back
RECURSIVE SmootherNum(_, _), SmootherDen(_)
SmootherNum(s, t) ==
    IF t = 0 THEN R(0) ELSE RAdd(R(s[t]), RMul(SmootherDecay, SmootherNum(s, t - 1)))
SmootherDen(t) ==
    IF t = 0 THEN R(0) ELSE RAdd(R(1), RMul(SmootherDecay, SmootherDen(t - 1)))
EwmSmoothed(s) == [t \in DOMAIN s |-> RDiv(SmootherNum(s, t), SmootherDen(t))]

\* ewm_smoothed.where(ewm_mask, series)
Where(sm, mask, s) == [t \in DOMAIN s |-> IF mask[t] THEN sm[t] ELSE R(s[t])]

\* decay_rate_smoother(series, difference_threshold, transition_window, ewm_span)
\* and TypologyResult._mean_radiant_temperature.__smoother, the same text
DecayRateSmoother(s, window) ==
    [transition_index |-> TransitionIndex(s),
     ewm_mask |-> EwmMask(TransitionIndex(s), window),
     new_series |-> Where(EwmSmoothed(s), EwmMask(TransitionIndex(s), window), s)]

\* ---- the smoother on its own
SeriesValues == {10, 20, 40}
TransitionWindows == {2, 4}

InitSmooth ==
    /\ the_series \in {<<[series |-> s, transition_window |-> w]>> :
                         s \in [1..SeriesLen -> SeriesValues], w \in TransitionWindows}
    /\ smoothed = <<>>
    /\ EarlierIdle
    /\ UtciIdle /\ ValidIdle /\ PlotIdle /\ OrderIdle /\ RaceIdle

CallDecayRateSmoother ==
    /\ smoothed = <<>>
    /\ smoothed' = <<DecayRateSmoother(the_series[1].series, the_series[1].transition_window)>>
    /\ UNCHANGED the_series
    /\ UNCHANGED earlier_vars
    /\ UNCHANGED <<utci_vars, valid_vars, plot_vars, order_vars, race_vars>>

NextSmooth == CallDecayRateSmoother

SpecSmooth == InitSmooth /\ [][NextSmooth]_vars

\* ------------------------------------------------------------ utci_parallel
MaxRows == 3

\* how a call ends: raised "" when it returns an array of the given shape
Ended(raised, at, shape) == [raised |-> raised, at |-> at, shape |-> shape]

\* ta.shape != tr.shape != vel.shape != rh.shape: a chained comparison, true
\* when each neighbouring pair differs
ShapesDiffer(ta, tr, vel, rh) == ta # tr /\ tr # vel /\ vel # rh

\* executor.map(utci_vectorised, ta, tr, vel, rh) takes the rows together
\* and stops at the shortest array
IMin4(a, b, c, d) == IMin(IMin(a, b), IMin(c, d))
IMax4(a, b, c, d) == -IMin4(-a, -b, -c, -d)
ZippedRows(ta, tr, vel, rh) == IMin4(ta[1], tr[1], vel[1], rh[1])
\* utci_vectorised on four rows: numpy broadcasts lengths 1 and n to n
Broadcastable(ta, tr, vel, rh) ==
    \A x \in {ta[2], tr[2], vel[2], rh[2]} : x \in {1, IMax4(ta[2], tr[2], vel[2], rh[2])}
RowLength(ta, tr, vel, rh) == IMax4(ta[2], tr[2], vel[2], rh[2])

\* np.concatenate(results).reshape(ta.shape)
Reshape(n, ta) ==
    IF n = ta[1] * ta[2] THEN Ended("", "", ta) ELSE Ended("ValueError", "reshape", <<>>)

UtciParallel(ta, tr, vel, rh) ==
    IF ShapesDiffer(ta, tr, vel, rh) THEN Ended("ValueError", "same shape", <<>>)
    ELSE IF \E x \in {ta, tr, vel, rh} : Len(x) # 2
         THEN Ended("ValueError", "shape (n, m)", <<>>)
    ELSE IF ~Broadcastable(ta, tr, vel, rh) THEN Ended("ValueError", "broadcast", <<>>)
    ELSE Reshape(ZippedRows(ta, tr, vel, rh) * RowLength(ta, tr, vel, rh), ta)

\* ---- utci_parallel on its own
Shapes == {<<2>>} \cup ((1..MaxRows) \X (1..2))

InitUtci ==
    /\ arrays \in {<<[ta |-> a, tr |-> b, vel |-> c, rh |-> d]>> :
                      a \in Shapes, b \in Shapes, c \in Shapes, d \in Shapes}
    /\ utci = <<>>
    /\ EarlierIdle
    /\ SmoothIdle /\ ValidIdle /\ PlotIdle /\ OrderIdle /\ RaceIdle

CallUtciParallel ==
    /\ utci = <<>>
    /\ utci' = <<UtciParallel(arrays[1].ta, arrays[1].tr, arrays[1].vel, arrays[1].rh)>>
    /\ UNCHANGED arrays
    /\ UNCHANGED earlier_vars
    /\ UNCHANGED <<smooth_vars, valid_vars, plot_vars, order_vars, race_vars>>

NextUtci == CallUtciParallel

SpecUtci == InitUtci /\ [][NextUtci]_vars

\* ------------------------------------------------------ validate_timeseries
DaysInYear == 365
DaysInLeapYear == 366
HoursInDay == 24

\* "" when validate_timeseries returns, else the exception it raises
ValidateTimeseries(o, is_annual, is_hourly, is_contiguous) ==
    IF ~o.is_series THEN "TypeError"
    ELSE IF ~o.datetime_index THEN "TypeError"
    ELSE IF is_annual /\ (o.days # DaysInYear \/ o.days # DaysInLeapYear) THEN "ValueError"
    ELSE IF is_hourly /\ o.hours # HoursInDay THEN "ValueError"
    ELSE IF is_contiguous /\ ~o.monotonic THEN "ValueError"
    ELSE ""

\* ---- validate_timeseries on its own
\* the objects: obj.index.day_of_year.nunique(), obj.index.hour.nunique(),
\* obj.index.is_monotonic_increasing
Objects ==
    [is_series : BOOLEAN, datetime_index : BOOLEAN,
     days : {1, DaysInYear - 1, DaysInYear, DaysInLeapYear},
     hours : {1, HoursInDay}, monotonic : BOOLEAN]

InitValid ==
    /\ obj \in {<<[obj |-> o, is_annual |-> a, is_hourly |-> h, is_contiguous |-> c]>> :
                   o \in Objects, a \in BOOLEAN, h \in BOOLEAN, c \in BOOLEAN}
    /\ verdict = <<>>
    /\ EarlierIdle
    /\ SmoothIdle /\ UtciIdle /\ PlotIdle /\ OrderIdle /\ RaceIdle

CallValidateTimeseries ==
    /\ verdict = <<>>
    /\ verdict' = <<ValidateTimeseries(obj[1].obj, obj[1].is_annual, obj[1].is_hourly,
                                       obj[1].is_contiguous)>>
    /\ UNCHANGED obj
    /\ UNCHANGED earlier_vars
    /\ UNCHANGED <<smooth_vars, utci_vars, plot_vars, order_vars, race_vars>>

NextValid == CallValidateTimeseries

SpecValid == InitValid /\ [][NextValid]_vars

\* -------------------------------------------------------- plot_typical_utci
\* range(1, 13, 1) and range(0, 24, 1)
PlotMonths == 1..12
PlotHours == 0..23

\* how a call ends: the steps it took, the plots directory and the result
\* object it leaves
Plotted(raised, steps, pl, w) == [raised |-> raised, steps |-> steps, plots |-> pl, w |-> w]

\* fig.savefig(save_path) after the matrix was taken; .groupby of None raises
SaveFig(month, hour, pl, r) ==
    IF ~r.ok \/ r.v = None THEN Plotted("Error", <<"mkdir", "points", "utci">>, pl, r.w)
    ELSE Plotted("", <<"mkdir", "points", "utci", "savefig">>,
                 [pl EXCEPT !.files = @ \cup {<<month, hour>>}], r.w)

\* from self.plot_directory on: mkdir, the existing plot, points_xy (which
\* leaves points.h5), the UTCI matrix, the figure
PlotFrom(month, hour, pl, w) ==
    IF <<month, hour>> \in pl.files
    THEN Plotted("", <<"mkdir">>, [pl EXCEPT !.dir = TRUE], w)
    ELSE SaveFig(month, hour, [pl EXCEPT !.dir = TRUE, !.points = TRUE],
                 UniversalThermalClimateIndexMatrix(w))

\* mutant: the save path is made before the arguments are looked at
TypicalUtciDirectoryFirst(month, hour, pl, w) ==
    IF month \notin PlotMonths \/ hour \notin PlotHours
    THEN Plotted("ValueError", <<"mkdir">>, [pl EXCEPT !.dir = TRUE], w)
    ELSE PlotFrom(month, hour, pl, w)
\* plot_typical_utci(month, hour)
TypicalUtci(month, hour, pl, w) ==
    IF month \notin PlotMonths THEN Plotted("ValueError", <<>>, pl, w)
    ELSE IF hour \notin PlotHours THEN Plotted("ValueError", <<>>, pl, w)
    ELSE PlotFrom(month, hour, pl, w)

\* ---- plotting on the result object
MonthsAsked == {0, 1, 12, 13}
HoursAsked == {-1, 0, 23, 24}

InitPlot ==
    /\ InitObject
    /\ epw.dbt[1] = 10
    /\ SmoothIdle /\ UtciIdle /\ ValidIdle /\ OrderIdle /\ RaceIdle
    /\ plots \in {<<[dir |-> d, points |-> p, files |-> f]>> :
                     d \in BOOLEAN, p \in BOOLEAN, f \in {{}, {<<1, 0>>}}}
    /\ plots[1].files # {} => plots[1].dir
    /\ plotted = <<>>

Plot(month, hour, r) ==
    /\ plotted' = <<[month |-> month, hour |-> hour, raised |-> r.raised, steps |-> r.steps,
                     before |-> [plots |-> plots[1], disk |-> disk, memo |-> memo],
                     after |-> [plots |-> r.plots, disk |-> r.w.disk, memo |-> r.w.memo]]>>
    /\ plots' = <<r.plots>>
    /\ disk' = r.w.disk
    /\ memo' = r.w.memo
    /\ onwrite' = r.w.onwrite
    /\ UNCHANGED <<inputs, interp, ws, wd, angle_mask, ret>>
    /\ UNCHANGED <<field_vars, ctor_vars, evap_vars, pool_vars>>
    /\ UNCHANGED <<smooth_vars, utci_vars, valid_vars, order_vars, race_vars>>

PlotTypicalUtci ==
    \E month \in MonthsAsked, hour \in HoursAsked :
        Plot(month, hour, TypicalUtci(month, hour, plots[1], Here))

\* a later run on the same directory
NewResultPlot ==
    /\ plotted # <<>>
    /\ memo # [f \in Props |-> <<>>]
    /\ memo' = [f \in Props |-> <<>>]
    /\ UNCHANGED <<plots, plotted, disk, onwrite>>
    /\ UNCHANGED <<inputs, interp, ws, wd, angle_mask, ret>>
    /\ UNCHANGED <<field_vars, ctor_vars, evap_vars, pool_vars>>
    /\ UNCHANGED <<smooth_vars, utci_vars, valid_vars, order_vars, race_vars>>

NextPlot == PlotTypicalUtci \/ NewResultPlot

SpecPlot == InitPlot /\ [][NextPlot]_vars

\* ---- the matrices of a result object statement by statement, one call
\* ---- stack per run, the runs sharing the simulation directory
MSU == "moisture_source_matrix_unique"
MM == "moisture_matrix"
\* the lookup of one moisture source and its <pathsafe_id>.npy
SRC1 == "moisture source 1"
SRC2 == "moisture source 2"
CacheFiles == {IRR, SKY, MRT, SRC1, SRC2, DBT, RH, WS, UTCI}
NoFault == "none"
Faults == {NoFault, IRR, SKY, MRT, SRC1, SRC2, MSU, MM, SMP, DBT, RH, WS, UTCI}

\* one statement of a property's body: "check" returns what the files x hold
\* if all exist; "resume" loads the file x and skips its computation; "use"
\* evaluates the property x; "values" takes .values of it; "begin" and "end"
\* open and close the computation of x; "write" saves the file x; "return"
\* returns the matrix and "fall" runs off the end of the body, returning None
Op(k, x) == [op |-> k, x |-> x]
Computation(m) == <<Op("begin", m), Op("end", m)>>
FromDirectory(m) ==
    <<Op("check", <<m>>)>> \o Computation(m) \o <<Op("write", m), Op("return", m)>>
MeanRadiantTemperatureStepsSavedFirst ==
    <<Op("check", <<MRT>>), Op("use", IRR), Op("use", SKY), Op("begin", MRT),
      Op("write", MRT), Op("end", MRT), Op("return", MRT)>>
MeanRadiantTemperatureSteps ==
    <<Op("check", <<MRT>>), Op("use", IRR), Op("use", SKY)>>
    \o Computation(MRT) \o <<Op("write", MRT), Op("return", MRT)>>
SourceLookup(f) == <<Op("resume", f)>> \o Computation(f) \o <<Op("write", f)>>
MoistureSourceMatrixUniqueSteps ==
    SourceLookup(SRC1) \o SourceLookup(SRC2) \o Computation(MSU) \o <<Op("return", MSU)>>
MoistureMatrixSteps ==
    <<Op("use", MSU), Op("use", MRT)>> \o Computation(MM) \o <<Op("return", MM)>>
SpatialMoisturePropertiesSteps(wet) ==
    <<Op("check", <<DBT, RH>>)>>
    \o (IF wet THEN <<Op("use", MM), Op("values", MM)>>
               ELSE <<Op("use", MRT), Op("values", MRT)>>)
    \o Computation(SMP) \o <<Op("write", DBT), Op("write", RH), Op("return", SMP)>>
WithMoisture(m, wet) ==
    <<Op("check", <<m>>)>>
    \o (IF wet THEN <<Op("use", SMP), Op("return", m)>>
               ELSE <<Op("use", MRT), Op("values", MRT)>> \o Computation(m)
                    \o <<Op("write", m), Op("fall", m)>>)
WindSpeedSteps ==
    <<Op("use", MRT), Op("values", MRT)>> \o Computation(WS)
    \o <<Op("write", WS), Op("return", WS)>>
UniversalThermalClimateIndexStepsStreamed ==
    <<Op("check", <<UTCI>>), Op("use", DBT), Op("values", DBT), Op("begin", UTCI),
      Op("use", MRT), Op("values", MRT), Op("use", WS), Op("values", WS),
      Op("use", RH), Op("values", RH), Op("end", UTCI),
      Op("write", UTCI), Op("return", UTCI)>>
UniversalThermalClimateIndexSteps ==
    <<Op("check", <<UTCI>>), Op("use", DBT), Op("values", DBT),
      Op("use", MRT), Op("values", MRT), Op("use", WS), Op("values", WS),
      Op("use", RH), Op("values", RH)>>
    \o Computation(UTCI) \o <<Op("write", UTCI), Op("return", UTCI)>>
Steps(m, wet) ==
    CASE m = IRR -> FromDirectory(IRR)
      [] m = SKY -> FromDirectory(SKY)
      [] m = MRT -> MeanRadiantTemperatureSteps
      [] m = MSU -> MoistureSourceMatrixUniqueSteps
      [] m = MM -> MoistureMatrixSteps
      [] m = SMP -> SpatialMoisturePropertiesSteps(wet)
      [] m = DBT -> WithMoisture(DBT, wet)
      [] m = RH -> WithMoisture(RH, wet)
      [] m = WS -> WindSpeedSteps
      [] m = UTCI -> UniversalThermalClimateIndexSteps

\* a run: its call stack of <<property, statement>>, the properties it has
\* memoised (nones: as None), what it did so far, and how its access ended
FreshRun == [stack |-> <<>>, memo |-> {}, nones |-> {}, log |-> <<>>, status |-> "idle"]
Frame(m) == [m |-> m, pc |-> 1]
TopOf(run) == run.stack[Len(run.stack)]
Now(r) == Steps(TopOf(runs[r]).m, stage.wet)[TopOf(runs[r]).pc]
At(r, kinds) == runs[r].status = "running" /\ Now(r).op \in kinds
OnDisk(f) == cache[f] # <<>>
Missing(fs) == SelectSeq(fs, LAMBDA f : ~OnDisk(f))
Did(what, fs) == [i \in DOMAIN fs |-> <<what, fs[i]>>]

Advance(run, n) == [run EXCEPT !.stack[Len(run.stack)].pc = @ + n]
Logged(run, events) == [run EXCEPT !.log = @ \o events]
\* the top frame returns; a cached_property keeps what it returned
Leave(run, m, none) ==
    [run EXCEPT !.stack = SubSeq(@, 1, Len(@) - 1),
                !.memo = IF m = SMP THEN @ ELSE @ \cup {m},
                !.nones = IF none THEN @ \cup {m} ELSE @,
                !.status = IF Len(run.stack) = 1 THEN "returned" ELSE "running"]
\* an exception: nothing in these properties catches it
Thrown(run, m) ==
    [run EXCEPT !.stack = <<>>, !.status = "raised", !.log = Append(@, <<"raise", m>>)]

RunStep == UNCHANGED <<stage, earlier_vars, smooth_vars, utci_vars, valid_vars, plot_vars>>

\* a caller reads the property m of the run's result object
AccessMatrix(r, m) ==
    /\ runs[r].status = "idle"
    /\ m \in stage.asked
    /\ runs' = [runs EXCEPT ![r].stack = <<Frame(m)>>, ![r].status = "running"]
    /\ UNCHANGED cache
    /\ RunStep

\* if save_path.exists(): return pd.read_hdf(save_path, "df")
CheckStep(r) ==
    /\ At(r, {"check"})
    /\ runs' = [runs EXCEPT ![r] =
          IF Missing(Now(r).x) = <<>>
          THEN Leave(Logged(@, Did("load", Now(r).x)), TopOf(@).m, FALSE)
          ELSE Advance(Logged(@, Did("miss", Missing(Now(r).x))), 1)]
    /\ UNCHANGED cache
    /\ RunStep

\* if save_path.exists(): np.load(save_path); continue
ResumeStep(r) ==
    /\ At(r, {"resume"})
    /\ runs' = [runs EXCEPT ![r] =
          IF OnDisk(Now(r).x)
          THEN Advance(Logged(@, <<<<"load", Now(r).x>>>>), Len(SourceLookup(Now(r).x)))
          ELSE Advance(Logged(@, <<<<"miss", Now(r).x>>>>), 1)]
    /\ UNCHANGED cache
    /\ RunStep

\* self.<property>: from the memo, or by running its body
UseStep(r) ==
    /\ At(r, {"use"})
    /\ runs' = [runs EXCEPT ![r] =
          IF Now(r).x \in @.memo
          THEN Advance(@, 1)
          ELSE [Advance(@, 1) EXCEPT !.stack = Append(@, Frame(Now(r).x))]]
    /\ UNCHANGED cache
    /\ RunStep

\* <property>.values, .index, .columns: an AttributeError on None
ValuesStep(r) ==
    /\ At(r, {"values"})
    /\ runs' = [runs EXCEPT ![r] =
          IF Now(r).x \in @.nones THEN Thrown(@, TopOf(@).m) ELSE Advance(@, 1)]
    /\ UNCHANGED cache
    /\ RunStep

BeginStep(r) ==
    /\ At(r, {"begin"})
    /\ runs' = [runs EXCEPT ![r] = Advance(Logged(@, <<<<"begin", Now(r).x>>>>), 1)]
    /\ UNCHANGED cache
    /\ RunStep

\* the computation completes, or raises part-way
EndStep(r) ==
    /\ At(r, {"end"})
    /\ runs' = [runs EXCEPT ![r] =
          IF stage.faulty = Now(r).x THEN Thrown(@, Now(r).x)
          ELSE Advance(Logged(@, <<<<"end", Now(r).x>>>>), 1)]
    /\ UNCHANGED cache
    /\ RunStep

\* a re-check of the file before it is written, which the code does not make
WriteStepIfAbsent(r) ==
    /\ At(r, {"write"})
    /\ cache' = IF OnDisk(Now(r).x) THEN cache
                ELSE [cache EXCEPT ![Now(r).x] = Append(@, r)]
    /\ runs' = [runs EXCEPT ![r] =
          IF OnDisk(Now(r).x) THEN Advance(@, 1)
          ELSE Advance(Logged(@, <<<<"write", Now(r).x>>>>), 1)]
    /\ RunStep
\* df.to_hdf(save_path, ...), np.save(save_path, ...)
WriteStep(r) ==
    /\ At(r, {"write"})
    /\ cache' = [cache EXCEPT ![Now(r).x] = Append(@, r)]
    /\ runs' = [runs EXCEPT ![r] = Advance(Logged(@, <<<<"write", Now(r).x>>>>), 1)]
    /\ RunStep

ReturnStep(r) ==
    /\ At(r, {"return", "fall"})
    /\ runs' = [runs EXCEPT ![r] = Leave(@, Now(r).x, Now(r).op = "fall")]
    /\ UNCHANGED cache
    /\ RunStep

NextRuns ==
    \/ \E r \in DOMAIN runs, m \in stage.asked : AccessMatrix(r, m)
    \/ \E r \in DOMAIN runs : CheckStep(r)
    \/ \E r \in DOMAIN runs : ResumeStep(r)
    \/ \E r \in DOMAIN runs : UseStep(r)
    \/ \E r \in DOMAIN runs : ValuesStep(r)
    \/ \E r \in DOMAIN runs : BeginStep(r)
    \/ \E r \in DOMAIN runs : EndStep(r)
    \/ \E r \in DOMAIN runs : WriteStep(r)
    \/ \E r \in DOMAIN runs : ReturnStep(r)

\* what the directory holds when the runs start: nothing; the loaded
\* simulation results and the MRT; one source's lookup; a dry bulb
\* temperature or a wind speed file alone
Cached == {{}, {IRR, SKY, MRT}, {SRC1}, {DBT}, {WS}}
Directory(S) == [f \in CacheFiles |-> IF f \in S THEN <<0>> ELSE <<>>]
\* the properties a caller may read; without moisture sources the moisture
\* lookup has nothing to take a maximum of
Readable(wet) ==
    {IRR, SKY, MRT, DBT, RH, WS, UTCI} \cup (IF wet THEN {MSU, MM} ELSE {})
NumRuns == 2

InitRuns(n, faults, dirs, reads) ==
    /\ stage \in {[wet |-> w, faulty |-> f, asked |-> Readable(w) \cap reads] :
                    w \in BOOLEAN, f \in faults}
    /\ cache \in {Directory(S) : S \in dirs}
    /\ runs = [r \in 1..n |-> FreshRun]
    /\ EarlierIdle /\ SmoothIdle /\ UtciIdle /\ ValidIdle /\ PlotIdle

\* one run, any fault, any of the directories, any property read
InitOrder == InitRuns(1, Faults, Cached, Readable(TRUE))
SpecOrder == InitOrder /\ [][NextRuns]_vars

\* NumRuns runs on an empty directory
InitRace == InitRuns(NumRuns, {NoFault, MRT}, {{}}, {MRT, MSU, WS})
SpecRace == InitRace /\ [][NextRuns]_vars

\* =================================================================== claims
Ran == interp # <<>>
Loc == interp[1]
SunlitHours == {h \in Hours : sun_up[h]}
NightHours == {h \in Hours : ~sun_up[h]}
IMax(a, b) == IF a >= b THEN a ELSE b
IMinOf(S) == CHOOSE x \in S : \A y \in S : x <= y
IMaxOf(S) == CHOOSE x \in S : \A y \in S : y <= x
\* the rational v equals the integer quotient num / den (den > 0)
REqQuot(v, num, den) == ~IsNaN(v) /\ v[1] * den = v[2] * num

\* C4 as stated: at every sunlit hour h and point p the daytime value sits at
\* the position of p's irradiance within the range of p's own irradiance over
\* all sunlit hours, the per-point minimum giving shaded(h), the maximum unshaded(h).
C4_PerPointRange ==
    Ran => \A h \in SunlitHours : \A p \in Points :
        LET pmin == IMinOf({irr[k][p] : k \in SunlitHours})
            pmax == IMaxOf({irr[k][p] : k \in SunlitHours})
        IN  pmax > pmin =>
                REqQuot(Loc.daytime[h][p],
                        shaded[h] * (pmax - pmin)
                            + (irr[h][p] - pmin) * (unshaded[h] - shaded[h]),
                        pmax - pmin)

\* C4 amended: at every sunlit hour h at which the points' irradiances are not
\* all equal, the daytime value of p sits at the position of p's irradiance
\* within the range of the irradiance of all points at hour h, the hour's
\* minimum giving min(shaded(h), unshaded(h)), its maximum max(shaded(h), unshaded(h)).
C4_PerHourRange ==
    Ran => \A h \in SunlitHours : \A p \in Points :
        LET omin == IMinOf({irr[h][q] : q \in Points})
            omax == IMaxOf({irr[h][q] : q \in Points})
            lo == IMin(shaded[h], unshaded[h])
            hi == IMax(shaded[h], unshaded[h])
        IN  omax > omin =>
                REqQuot(Loc.daytime[h][p],
                        lo * (omax - omin) + (irr[h][p] - omin) * (hi - lo),
                        omax - omin)

\* a sunlit hour with a point strictly inside the hour's irradiance range and
\* the unshaded MRT below the shaded one has been interpolated
C4_Witness ==
    /\ Ran
    /\ \E h \in SunlitHours : \E p, q, r \in Points :
          /\ irr[h][q] < irr[h][p] /\ irr[h][p] < irr[h][r]
          /\ unshaded[h] < shaded[h]
          /\ REqQuot(Loc.daytime[h][p], shaded[h] + unshaded[h], 2)

Between(v, a, b) == RLe(R(IMin(a, b)), v) /\ RLe(v, R(IMax(a, b)))

\* C5 as stated: at every hour with the sun down the MRT produced for (h, p)
\* lies between the shaded and the unshaded MRT of that hour.
C5_ResultBetween ==
    Ran => \A h \in NightHours : \A p \in Points :
        /\ ~IsNaN(Loc.result[h][p])
        /\ Between(Loc.result[h][p], shaded[h], unshaded[h])

\* C5 amended: at every hour with the sun down the night-time interpolated
\* value of (h, p), before gap filling and smoothing, lies between the shaded
\* and the unshaded MRT of that hour.
C5_NighttimeBetween ==
    Ran => \A h \in NightHours : \A p \in Points :
        /\ ~IsNaN(Loc.nighttime[h][p])
        /\ Between(Loc.nighttime[h][p], shaded[h], unshaded[h])

\* a night hour with different shaded and unshaded MRT and a half-open point
C5_Witness ==
    /\ Ran
    /\ \E h \in NightHours : \E p \in Points :
          /\ shaded[h] # unshaded[h]
          /\ 0 < sky[p] /\ sky[p] < SkyViewMax
          /\ Loc.nighttime[h][p] # R(shaded[h])
          /\ Loc.nighttime[h][p] # R(unshaded[h])

\* C6: sun down at all hours, shaded MRT 20 and unshaded MRT 40 throughout:
\* a point of sky view 0 / 50 / 100 has the constant column 20 / 30 / 40, in
\* the interpolation's result and in the float16 matrix made of it.
C6_Scenario ==
    /\ Ran
    /\ \A h \in Hours : ~sun_up[h] /\ shaded[h] = 20 /\ unshaded[h] = 40
C6_NightBlend ==
    C6_Scenario => \A h \in Hours : \A p \in Points :
        /\ sky[p] = 0 => Loc.result[h][p] = R(20) /\ Float16(Loc.result[h][p]) = R(20)
        /\ sky[p] = 50 => Loc.result[h][p] = R(30) /\ Float16(Loc.result[h][p]) = R(30)
        /\ sky[p] = 100 => Loc.result[h][p] = R(40) /\ Float16(Loc.result[h][p]) = R(40)
C6_Witness ==
    /\ C6_Scenario
    /\ \E p, q, r \in Points : sky[p] = 0 /\ sky[q] = 50 /\ sky[r] = 100
    /\ \A h \in Hours : \E p, q, r \in Points :
          Loc.result[h][p] = R(20) /\ Loc.result[h][q] = R(30) /\ Loc.result[h][r] = R(40)


\* the interpolated series of point p before smoothing (gaps filled)
RawColumn(p) == Force(InterpolateColumn(Force(Column(Loc.concat, p))))
RECURSIVE WeightedNum(_, _, _), WeightedDen(_, _)
\* sum of w^(t-i) * col[i] and of w^(t-i) over the valid hours i <= t
WeightedNum(col, w, t) ==
    IF t = 0 \/ IsNaN(col[t]) THEN R(0)
    ELSE RAdd(col[t], RMul(w, WeightedNum(col, w, t - 1)))
WeightedDen(w, n) == IF n = 0 THEN R(0) ELSE RAdd(R(1), RMul(w, WeightedDen(w, n - 1)))
ValidUpTo(col, t) == Cardinality({i \in 1..t : ~IsNaN(col[i])})
\* hour h is within the 4 hours that start at a drop of more than 10
InDropWindow(col, h) ==
    \E k \in 2..h : h - k < 4 /\ RLt(R(10), RSub(col[k - 1], col[k]))

\* C7 as stated: the smoother changes a value only inside the 4-hour window
\* following an hour-over-hour drop of more than 10, where it gives the
\* exponentially weighted mean of span 1.25 (weights (1/9)^k); at every other
\* hour the raw interpolated value is passed through unchanged.
C7_ThresholdWindowSmoother ==
    Ran => \A p \in Points : \A h \in Hours :
        LET raw == RawColumn(p)
        IN  ~IsNaN(raw[h]) =>
                IF InDropWindow(raw, h)
                THEN Loc.result[h][p] =
                        RDiv(WeightedNum(raw, <<1, 9>>, h),
                             WeightedDen(<<1, 9>>, ValidUpTo(raw, h)))
                ELSE Loc.result[h][p] = raw[h]

\* C7 amended: the smoother is an exponentially weighted mean of span 1.5 over
\* the whole gap-filled series of each point, with no threshold and no window:
\* from the first valid hour on, the value at hour t is the mean of the raw
\* values at the hours i <= t weighted by (1/5)^(t-i); before it, it is NaN.
C7_EwmEverywhere ==
    Ran => \A p \in Points : \A h \in Hours :
        LET raw == RawColumn(p)
        IN  IF IsNaN(raw[h]) THEN IsNaN(Loc.result[h][p])
            ELSE Loc.result[h][p] =
                    RDiv(WeightedNum(raw, <<1, 5>>, h),
                         WeightedDen(<<1, 5>>, ValidUpTo(raw, h)))

\* a value outside every drop window has been changed by the smoother: the
\* hour after a rise of the raw series
C7_Witness ==
    /\ Ran
    /\ \E p \in Points : \E h \in 2..NumHours :
          LET raw == RawColumn(p)
          IN  /\ ~IsNaN(raw[h - 1]) /\ RLt(raw[h - 1], raw[h])
              /\ ~InDropWindow(raw, h)
              /\ RLt(Loc.result[h][p], raw[h])
              /\ RLt(raw[h - 1], Loc.result[h][p])

\* ------------------------------------------------------- angle mask claims
Masked == angle_mask # <<>>
Mask == angle_mask[1]
\* the angle between the bearing a and the wind direction d around the circle
CircDist(a, d) == IMin((a - d) % FullCircle, (d - a) % FullCircle)

\* C8 as stated: at wind speed > 0 the mask keeps exactly the points whose
\* bearing is within 6 degrees of the wind direction around the circle, also
\* where the plume straddles 0/360 (the bearings exactly 6 degrees away are
\* left open here: they are C9's subject).
C8_MaskWrapsAround ==
    (Masked /\ ws > 0) => \A a \in Bearings :
        /\ CircDist(a, wd) < PlumeBuffer => Mask[a]
        /\ CircDist(a, wd) > PlumeBuffer => ~Mask[a]

\* C9 as stated: at wind speed > 0 a point whose bearing is exactly 6 degrees
\* from the wind direction passes the mask.
C9_BoundaryIncluded ==
    (Masked /\ ws > 0) => \A a \in Bearings :
        CircDist(a, wd) = PlumeBuffer => Mask[a]

\* C9 amended: at wind speed > 0 a point whose bearing is exactly 6 degrees
\* from the wind direction does not pass the mask: the bounds are exclusive.
C9_BoundaryExcluded ==
    (Masked /\ ws > 0) => \A a \in Bearings :
        CircDist(a, wd) = PlumeBuffer => ~Mask[a]

\* the mask of a wind from 90 degrees keeps bearing 95 and drops 96 and 84
C9_Witness ==
    /\ Masked /\ ws > 0 /\ wd = 90
    /\ Mask[95] /\ Mask[85] /\ ~Mask[96] /\ ~Mask[84]

\* C10: at wind speed 0 the mask drops no point; at wind speed > 0, for every
\* wind direction in [0, 360], a point whose bearing is the wind direction is
\* kept and the point 180 degrees from the wind direction is dropped (a wind
\* from 360 is a wind from north, where the bearing of a point is 0).
C10_CalmAndDownwind ==
    Masked => \A a \in Bearings :
        /\ ws = 0 => Mask[a]
        /\ (ws > 0 /\ a = wd % FullCircle) => Mask[a]
        /\ (ws > 0 /\ a = (wd + 180) % FullCircle) => ~Mask[a]

\* ---------------------------------------------------------- caching claims
Accessed == ret # <<>>
Last == ret[1]

\* C1: when the cache file of a derived matrix exists, the access that
\* evaluates the matrix returns the file's contents, does not compute the
\* matrix and does not write the file.
C1_ExistingCacheIsLoaded ==
    (Accessed /\ ~Last.memoised /\ Last.before # <<>>) =>
        /\ Last.ok
        /\ Last.value = Last.before
        /\ Last.prop \notin Last.computed
        /\ Last.prop \notin Last.written

\* C2: without moisture sources and without a cache file, the access that
\* evaluates dry_bulb_temperature_matrix (relative_humidity_matrix) returns
\* the hours x points matrix whose every column is the weather file's dry
\* bulb temperature (relative humidity) series.
C2_BroadcastReturned ==
    (Accessed /\ ~Last.memoised /\ Last.before = <<>>) =>
        /\ Last.prop = DBT => Last.value = Some(Broadcast(epw.dbt))
        /\ Last.prop = RH => Last.value = Some(Broadcast(epw.rh))

\* C3: the value a later result object gets by loading a matrix's cache file
\* equals the value the access that computed the matrix and wrote the file
\* returned.
C3_RoundTrip ==
    (Accessed /\ Last.prop \in Last.loaded /\ onwrite[Last.prop] # <<>>) =>
        Last.value = onwrite[Last.prop][1]

\* C20: within one result object a matrix already materialised is returned
\* from memory with nothing read, computed or written, whatever happened to
\* its cache file since; the access that materialises it in an object loads
\* the cache file if it exists and computes the matrix if it does not
C20_MaterialisedOnce ==
    Accessed =>
        /\ Last.memoised =>
              /\ Last.ok /\ Last.value = memo[Last.prop][1]
              /\ Last.computed = {} /\ Last.written = {} /\ Last.loaded = {}
        /\ (~Last.memoised /\ Last.before # <<>>) =>
              /\ Last.prop \in Last.loaded
              /\ Last.prop \notin Last.computed
        /\ (~Last.memoised /\ Last.before = <<>>) =>
              Last.prop \in Last.computed

\* ---------------------------------------------------- moisture field claims
Fielded == field # <<>>
Fld == field[1]
\* the per-source matrix the evaluation used: what the source's file now holds
Eff(i, k, p) == sources[i].file[1][k][p]
ZeroMatrix == [h \in Hours |-> [p \in Points |-> R(0)]]

\* C11: with zero moisture sources the moisture matrix is produced without
\* error, is the hours x points matrix of zeros, and no plume computation
\* has run.
C11_NoSourcesZeroMatrix ==
    (Fielded /\ sources = <<>>) =>
        /\ Fld.matrix.ok
        /\ Fld.matrix.v = <<ZeroMatrix>>
        /\ Fld.generated = {}

\* C12: for every WindState and grid point the effectiveness of several
\* sources is the maximum of the per-source effectivenesses: it is one of
\* them, none of them is larger, and it never exceeds the largest magnitude.
C12_MaxOverSources ==
    (Fielded /\ sources # <<>>) =>
        /\ Fld.result.ok
        /\ \A k \in DOMAIN Fld.unique : \A p \in Points :
            /\ \E i \in DOMAIN sources : Fld.result.v[1][k][p] = Eff(i, k, p)
            /\ \A i \in DOMAIN sources : RLe(Eff(i, k, p), Fld.result.v[1][k][p])
            /\ \E i \in DOMAIN sources : RLe(Fld.result.v[1][k][p], sources[i].magnitude)

\* two sources that both reach a grid point, with different effectiveness
C12_Witness ==
    /\ Fielded /\ Len(sources) = 2 /\ Fld.result.ok
    /\ \E k \in DOMAIN Fld.unique : \E p \in Points :
        /\ RLt(R(0), Eff(1, k, p)) /\ RLt(Eff(1, k, p), Eff(2, k, p))
        /\ Fld.result.v[1][k][p] = Eff(2, k, p)
        /\ RLt(sources[1].magnitude, RAdd(Eff(1, k, p), Eff(2, k, p)))

\* the radius of influence: 5 in calm wind, else wind speed x 10
Radius2(w) == IF w[1] = 0 THEN 25 ELSE 100 * w[1] * w[1]
\* v = magnitude x (1 - (d / radius)^2), with d clamped at the radius
IsParabolic(v, magnitude, d2, r2) ==
    v[1] * magnitude[2] * r2 = v[2] * magnitude[1] * (r2 - IMin(d2, r2))
GeneratedPointSource ==
    Fielded /\ Len(sources) = 1 /\ Fld.generated = {1} /\ Cardinality(sources[1].points) = 1
ThePoint == CHOOSE sp \in sources[1].points : TRUE

\* C13: a generated point source gives a grid point inside its plume (any
\* point in calm wind) magnitude x (1 - (d/radius)^2) with d clamped at the
\* radius, the radius 5 in calm wind and wind speed x 10 otherwise; a source
\* of magnitude 0.5 at (0,0) in calm wind gives the points at distance 0, 5
\* and 10 the values 0.5, 0 and 0.
C13_RadialDecay ==
    GeneratedPointSource =>
        /\ \A k \in DOMAIN Fld.unique : \A p \in Points :
            (Fld.unique[k][1] = 0 \/
             AngleMask(Fld.unique[k][1], Fld.unique[k][2],
                       AngleFromNorth(Vector(ThePoint, grid[p])))) =>
                IsParabolic(Fld.result.v[1][k][p], sources[1].magnitude,
                            Distance2(Vector(ThePoint, grid[p])), Radius2(Fld.unique[k]))
        /\ (ThePoint = <<0, 0>> /\ sources[1].magnitude = <<1, 2>> /\ Fld.unique[1] = <<0, 0>>) =>
                /\ Fld.result.v[1][1][1] = <<1, 2>>
                /\ Fld.result.v[1][1][2] = R(0)
                /\ Fld.result.v[1][1][3] = R(0)

\* the end-to-end scenario: magnitude 0.5 at (0,0), calm wind, points at 0, 5, 10
C13_Witness ==
    /\ GeneratedPointSource
    /\ ThePoint = <<0, 0>> /\ sources[1].magnitude = <<1, 2>>
    /\ Fld.unique[1] = <<0, 0>>
    /\ grid[1] = <<0, 0>> /\ grid[2] = <<5, 0>> /\ grid[3] = <<10, 0>>
    /\ Fld.result.v[1][1] = [p \in Points |-> IF p = 1 THEN <<1, 2>> ELSE R(0)]

\* the squared distance from a grid point to the nearest point of source i
NearestDistance2(i, p) ==
    IMinOf({Distance2(Vector(sp, grid[p])) : sp \in sources[i].points})
\* the points of source i whose plume, for the WindState w, holds grid point p
PlumePoints(i, w, p) ==
    {sp \in sources[i].points :
        AngleMask(w[1], w[2], AngleFromNorth(Vector(sp, grid[p])))}
PlumeDistance2(i, w, p) ==
    IMinOf({Distance2(Vector(sp, grid[p])) : sp \in PlumePoints(i, w, p)})

\* C14 as stated: for a fixed WindState and source, of any two grid points
\* the one farther from the source never has the larger effectiveness.
C14_MonotoneInDistance ==
    Fielded => \A i \in DOMAIN sources : \A k \in DOMAIN Fld.unique :
        \A p, q \in Points :
            NearestDistance2(i, p) < NearestDistance2(i, q) =>
                RLe(Eff(i, k, q), Eff(i, k, p))

\* C14 amended: for a fixed WindState and source, a grid point in no plume
\* of the source has effectiveness 0, and of two grid points inside the
\* plume the one farther from the nearest source point whose plume holds it
\* never has the larger effectiveness.
C14_MonotoneInsidePlume ==
    Fielded => \A i \in DOMAIN sources : \A k \in DOMAIN Fld.unique :
        \A p, q \in Points :
            /\ PlumePoints(i, Fld.unique[k], p) = {} => Eff(i, k, p) = R(0)
            /\ (/\ PlumePoints(i, Fld.unique[k], p) # {}
                /\ PlumePoints(i, Fld.unique[k], q) # {}
                /\ PlumeDistance2(i, Fld.unique[k], p) <= PlumeDistance2(i, Fld.unique[k], q)) =>
                    RLe(Eff(i, k, q), Eff(i, k, p))

\* a wind > 0: a point within the radius but outside the plume has 0, two
\* points inside the plume have a positive effectiveness that falls with the
\* distance
C14_Witness ==
    /\ Fielded /\ Len(sources) >= 1
    /\ \E k \in DOMAIN Fld.unique : \E p, q, r \in Points :
        /\ Fld.unique[k][1] > 0
        /\ PlumePoints(1, Fld.unique[k], r) = {} /\ Eff(1, k, r) = R(0)
        /\ PlumePoints(1, Fld.unique[k], p) # {} /\ PlumePoints(1, Fld.unique[k], q) # {}
        /\ PlumeDistance2(1, Fld.unique[k], p) < PlumeDistance2(1, Fld.unique[k], q)
        /\ RLt(R(0), Eff(1, k, q)) /\ RLt(Eff(1, k, q), Eff(1, k, p))
        /\ NearestDistance2(1, r) < Radius2(Fld.unique[k])

\* ------------------------------------------------- evaporative cooling claims
Called(fn) == cooled # <<>> /\ cooled[1].fn = fn
Arg == air[1].rows[1]
Out == cooled[1].v[1]
InRange(rh) == RLe(R(0), rh) /\ RLe(rh, R(SaturatedRH))

\* C15: evaporative_cooling_effect returns its inputs unchanged at
\* effectiveness 0 and returns the wet-bulb temperature and RH 100 at
\* effectiveness 1, for every DBT and every RH in [0, 100]
C15_IdentityAndSaturation ==
    (Called("evaporative_cooling_effect") /\ InRange(Arg.rh)) =>
        /\ air[1].e = R(0) => (Out.dbt = Arg.dbt /\ Out.rh = Arg.rh)
        /\ air[1].e = R(1) => (Out.dbt = Arg.wbt /\ Out.rh = R(SaturatedRH))

\* a call at effectiveness 1 on unsaturated air whose wet bulb is below its
\* dry bulb
C15_Witness ==
    /\ Called("evaporative_cooling_effect")
    /\ air[1].e = R(1)
    /\ Arg.rh = R(50)
    /\ RLt(Arg.wbt, Arg.dbt)
    /\ Out.dbt = Arg.wbt

\* C16: no use of the evaporative cooling arithmetic returns an adjusted RH
\* above 100: where RH * (1 - e) + 100 * e exceeds 100 the result is RH 100
\* and DBT = wet-bulb temperature
C16_NeverAboveSaturation ==
    (cooled # <<>> /\ cooled[1].ok) =>
        \A h \in DOMAIN cooled[1].v :
            /\ RLe(cooled[1].v[h].rh, R(SaturatedRH))
            /\ RLt(R(SaturatedRH), CooledRh(air[1].rows[h].rh, air[1].e)) =>
                  /\ cooled[1].v[h].rh = R(SaturatedRH)
                  /\ cooled[1].v[h].dbt = air[1].rows[h].wbt

\* --------------------------------------------------------- constructor claims
Constructed == built # <<>>
IrradianceAbsent == ~site[1].irr_dir \/ site[1].n_ill = 0
SkyViewAbsent == ~site[1].sky_dir \/ site[1].n_res = 0

\* C17: with no moisture_sources.json in the simulation directory the
\* construction succeeds: a warning is emitted, the moisture source list is
\* empty and no error is raised (no error about the moisture sources in any
\* directory, no error at all in one whose results are in place)
C17_AbsentFileDisablesFeature ==
    (Constructed /\ site[1].moisture = "absent") =>
        /\ built[1].about # "moisture_sources"
        /\ (~IrradianceAbsent /\ ~SkyViewAbsent /\ site[1].n_res_top = 1) =>
              /\ built[1].error = ""
              /\ built[1].warned
              /\ built[1].moisture_sources = <<>>

\* a directory with its results in place and no moisture_sources.json,
\* constructed with the warning
C17_Witness ==
    /\ Constructed
    /\ site[1].moisture = "absent"
    /\ site[1].n_ill > 0 /\ site[1].n_res_top = 1
    /\ built[1].warned
    /\ built[1].error = ""

\* C18 as stated: absent points, irradiance results or sky-view results, or
\* more than one sky-view result file, end the construction in a
\* MissingDataError
C18_MissingDataError ==
    (Constructed /\ (\/ ~site[1].points
                     \/ IrradianceAbsent
                     \/ SkyViewAbsent
                     \/ site[1].n_res_top > 1)) =>
        built[1].error = "MissingDataError"

\* C18: absent irradiance results or sky-view results, or more than one
\* sky-view result file, end the construction in a ValueError; absent
\* points alone do not end it in an error
C18_ValueErrorAndPointsUnchecked ==
    Constructed =>
        /\ (IrradianceAbsent \/ SkyViewAbsent \/ site[1].n_res_top > 1) =>
              built[1].error = "ValueError"
        /\ (/\ ~site[1].points
            /\ ~IrradianceAbsent /\ ~SkyViewAbsent /\ site[1].n_res_top = 1
            /\ site[1].moisture \in {"absent", "sources"}) =>
              built[1].error = ""

\* a directory with two sky-view result files, refused with a ValueError
C18_Witness ==
    /\ Constructed
    /\ ~IrradianceAbsent
    /\ site[1].n_res_top = MaxFiles
    /\ built[1].error = "ValueError"
    /\ built[1].about = "single grid"

\* ------------------------------------------------------ typology pool claims
\* C19: calculate_typology_results returns one TypologyResult per input
\* typology, in the order of the input list whatever order the workers
\* finished in; with an element that is not a Typology it raises ValueError
\* and no work is ever submitted
C19_SubmissionOrder ==
    /\ pc = "returned" =>
          /\ Len(results) = Len(typologies)
          /\ \A i \in DOMAIN typologies : results[i] = TypologyResultOf(typologies[i])
    /\ ~AllTypologies(typologies) => (futures = <<>> /\ pc \in {"idle", "ValueError"})
    /\ pc = "ValueError" => ~AllTypologies(typologies)

\* a returned call in which a later typology's worker finished before an
\* earlier, different typology's
C19_Witness ==
    /\ pc = "returned"
    /\ \E i, j \in DOMAIN typologies :
          /\ i < j
          /\ typologies[i] # typologies[j]
          /\ futures[i].rank > futures[j].rank

\* C27: the unique WindStates are the distinct (wind speed, wind direction)
\* pairs of the year, each once, and row h of the moisture matrix is (the
\* float16 of) the field of the pair observed at hour h: at every grid point
\* the largest point-in-time effectiveness of any source under winds[h]
C27_HourTakesItsWindState ==
    (Fielded /\ sources # <<>>) =>
        /\ {Fld.unique[k] : k \in DOMAIN Fld.unique} = {winds[h] : h \in Hours}
        /\ \A j, k \in DOMAIN Fld.unique : j # k => Fld.unique[j] # Fld.unique[k]
        /\ Fld.matrix.ok
        /\ \A h \in Hours : \A p \in Points :
              Fld.matrix.v[1][h][p] =
                  Float16(RMaxOf({PointInTime(sources[i], winds[h], grid[p]) :
                                     i \in DOMAIN sources}))

\* a year whose WindStates sort into another order than the hours', with a
\* field that differs between two of its hours
C27_Witness ==
    /\ Fielded /\ sources # <<>>
    /\ \E h \in DOMAIN Fld.unique : Fld.unique[h] # winds[h]
    /\ \E h, g \in Hours : Fld.matrix.v[1][h] # Fld.matrix.v[1][g]

\* ------------------------------------------------ angle mask claims, north
\* C29: a wind from 360 is a wind from 0: at wind speed > 0 the mask built
\* for wd = 360 keeps a bearing in [0, 360) exactly when the mask for wd = 0
\* keeps it
C29_NorthIsNorth ==
    (Masked /\ ws > 0 /\ wd = FullCircle) =>
        \A a \in Bearings : Mask[a] = AngleMask(ws, 0, a)

\* ------------------------------------------------------------ smoother claims
Smoothed == smoothed # <<>>
\* t is a position where the series dropped by more than the threshold
Dropped(t) == t > 1 /\ the_series[1].series[t] - the_series[1].series[t - 1] < DifferenceThreshold
\* t lies at, or within transition_window positions after, such a position
NearDrop(t) ==
    \E j \in 1..t : Dropped(j) /\ t - j <= the_series[1].transition_window

\* C28: the smoother leaves a value unchanged unless it lies within
\* transition_window positions after a position where the series dropped by
\* more than the threshold; a series with no such drop comes back unchanged
C28_UnchangedAwayFromDrops ==
    Smoothed => \A t \in 1..SeriesLen :
        ~NearDrop(t) => smoothed[1].new_series[t] = R(the_series[1].series[t])

\* ------------------------------------------------------- utci_parallel claims
\* C21: utci_parallel raises ValueError whenever ta, tr, vel and rh do not
\* all have the same shape, also when only one of them differs
C21_ShapeMismatchRaises ==
    (utci # <<>> /\ Cardinality({arrays[1].ta, arrays[1].tr, arrays[1].vel, arrays[1].rh}) > 1) =>
        utci[1].raised = "ValueError"

\* ------------------------------------------------- validate_timeseries claims
\* C22: called with is_annual=True alone on a datetime-indexed series,
\* validate_timeseries raises ValueError if and only if the series does not
\* cover 365 or 366 distinct days of the year
C22_AnnualAccepted ==
    (/\ verdict # <<>>
     /\ obj[1].obj.is_series /\ obj[1].obj.datetime_index
     /\ obj[1].is_annual /\ ~obj[1].is_hourly /\ ~obj[1].is_contiguous) =>
        (verdict[1] = "ValueError") <=> (obj[1].obj.days \notin {DaysInYear, DaysInLeapYear})

\* --------------------------------------------------------------- plot claims
\* C23: plot_typical_utci raises ValueError for a month outside 1..12 or an
\* hour outside 0..23, and has then taken no step: the plots directory is not
\* made, the UTCI matrix is neither computed nor loaded, no file is written
C23_ArgumentsCheckedFirst ==
    (plotted # <<>> /\ (plotted[1].month \notin 1..12 \/ plotted[1].hour \notin 0..23)) =>
        /\ plotted[1].raised = "ValueError"
        /\ plotted[1].steps = <<>>
        /\ plotted[1].after = plotted[1].before

\* a refused call on a directory without plots directory whose UTCI matrix
\* is neither on file nor in memory, while a call with good arguments makes
\* the directory
C23_Witness ==
    /\ plotted # <<>>
    /\ plotted[1].month = 13
    /\ plotted[1].raised = "ValueError"
    /\ ~plots[1].dir
    /\ disk[UTCI] = <<>> /\ memo[UTCI] = <<>>

\* ------------------------------------------- spatial_moisture_properties claim
\* C30: no existing cache file is overwritten: a call of
\* spatial_moisture_properties leaves an existing dry_bulb_temperature_matrix.h5
\* or relative_humidity_matrix.h5 as it was, also when the other of the two is
\* missing, and the access of the matrix whose file exists returns the file's
\* contents and leaves the file alone
C30_ExistingFileKept ==
    Accessed =>
        /\ Last.prop = SMP =>
              \A f \in {DBT, RH} : Last.before[f] # <<>> => disk[f] = Last.before[f]
        /\ (Last.prop \in {DBT, RH} /\ ~Last.memoised /\ Last.before # <<>>) =>
              /\ Last.value = Last.before
              /\ disk[Last.prop] = Last.before

\* --------------------------------------------------- order of computation
\* what a run did, in order, and the events of it before the i-th
Log(r) == runs[r].log
Begun(r) == {i \in DOMAIN Log(r) : Log(r)[i][1] = "begin"}
Before(r, i, events) == \E j \in 1..(i - 1) : Log(r)[j] \in events
\* the matrices the computation of m reads
DependsOn(m) ==
    CASE m = MRT -> {IRR, SKY}
      [] m = MSU -> {SRC1, SRC2}
      [] m = MM -> {MSU, MRT}
      [] m = SMP -> IF stage.wet THEN {MM} ELSE {MRT}
      [] m \in {DBT, RH, WS} -> {MRT}
      [] m = UTCI -> {DBT, MRT, WS, RH}
      [] OTHER -> {}
\* d is whole in memory: computed to the end, or read from its file
Made(d) ==
    {<<"end", d>>, <<"load", d>>} \cup (IF d \in {DBT, RH} THEN {<<"end", SMP>>} ELSE {})
\* d is in its cache file: written by this run, or found there
Saved(d) == {<<"write", d>>, <<"load", d>>}
\* the stages of the order irradiance/sky-view, MRT, moisture, DBT/RH, UTCI
StageOf(m) ==
    CASE m \in {IRR, SKY} -> 1
      [] m = MRT -> 2
      [] m \in {SRC1, SRC2, MSU, MM} -> 3
      [] m \in {SMP, DBT, RH} -> 4
      [] m = UTCI -> 5
InStages(r, ms) ==
    \A i \in Begun(r), j \in Begun(r) :
        (i < j /\ Log(r)[i][2] \in ms /\ Log(r)[j][2] \in ms)
            => StageOf(Log(r)[i][2]) <= StageOf(Log(r)[j][2])

\* C24 as stated: the computations of a run begin in the order
\* irradiance/sky-view, MRT, moisture, DBT/RH, UTCI; a computation begins only
\* when every matrix it reads is whole in memory and is in its cache file
C24_StrictOrder ==
    \A r \in DOMAIN runs :
        /\ InStages(r, {IRR, SKY, MRT, SRC1, SRC2, MSU, MM, SMP, DBT, RH, UTCI})
        /\ \A i \in Begun(r) : \A d \in DependsOn(Log(r)[i][2]) :
              Before(r, i, Made(d)) /\ Before(r, i, Saved(d))

\* C24: the computations of a run begin in the order irradiance/sky-view, MRT,
\* moisture matrix, DBT/RH, UTCI, the lookups of the moisture sources apart
\* (they read no other matrix and may come first); a computation begins only
\* when every matrix it reads is whole in memory, and when each of them that
\* has a cache file (all but the moisture matrix and the combined lookup) is
\* in its cache file
C24_DependencyOrder ==
    \A r \in DOMAIN runs :
        /\ InStages(r, {IRR, SKY, MRT, MM, SMP, DBT, RH, UTCI})
        /\ \A i \in Begun(r) : \A d \in DependsOn(Log(r)[i][2]) :
              /\ Before(r, i, Made(d))
              /\ d \in CacheFiles => Before(r, i, Saved(d))
\* a run with moisture sources on an empty directory has computed the UTCI
\* matrix, and every matrix below it
C24_Witness ==
    /\ stage.wet
    /\ \A f \in CacheFiles : cache[f] = <<>> \/ cache[f][1] = 1
    /\ runs[1].status = "returned"
    /\ \A m \in {IRR, SKY, MRT, SRC1, SRC2, MSU, MM, SMP, WS, UTCI} :
          \E i \in DOMAIN Log(1) : Log(1)[i] = <<"end", m>>

\* ------------------------------------------------------ failed computations
Raised(r, m) ==
    /\ runs[r].status = "raised"
    /\ Log(r)[Len(Log(r))] = <<"raise", m>>
FilesOf(m) == IF m = SMP THEN {DBT, RH} ELSE {m} \cap CacheFiles
WrittenBy(r, f) == \E i \in DOMAIN cache[f] : cache[f][i] = r
Missed(r, f) == \E i \in DOMAIN Log(r) : Log(r)[i] = <<"miss", f>>
\* C26: nothing between the test for the cache file and its writing looks at
\* another run: every run that found a cache file missing and has returned
\* has computed the matrix and written the file, whatever the other run did
\* meanwhile; so two runs that both found it missing have both written it
C26_NoLock ==
    /\ \A r \in DOMAIN runs : \A f \in CacheFiles :
          (runs[r].status = "returned" /\ Missed(r, f)) =>
              /\ \E i \in DOMAIN Log(r) : Log(r)[i] = <<"write", f>>
              /\ WrittenBy(r, f)
    /\ \A f \in CacheFiles :
          (\A r \in DOMAIN runs : runs[r].status = "returned" /\ Missed(r, f)) =>
              Len(cache[f]) = NumRuns
\* both runs found mean_radiant_temperature_matrix.h5 missing, both computed
\* the matrix and both wrote the file
C26_Witness ==
    /\ \A r \in DOMAIN runs :
          /\ runs[r].status = "returned"
          /\ Missed(r, MRT)
          /\ \E i \in DOMAIN Log(r) : Log(r)[i] = <<"end", MRT>>
    /\ cache[MRT] \in {<<1, 2>>, <<2, 1>>}

====
